---- MODULE Spec2Model ----
(***************************************************************************)
(* A model of the ingestion-and-normalisation core of insitupy:            *)
(*   - the depth-datum normaliser   (standardize_depth),                   *)
(*   - the profile aggregator       (ProfileData),                         *)
(*   - the coordinate/time resolver (MetaDataParser),                      *)
(*   - the line classifier          (CSVMetaDataParser).                   *)
(* Each component has its own variables and its own specification; a       *)
(* specification keeps the variables of the other components idle.         *)
(* Depths and sample values are integers: floating-point rounding is not   *)
(* modelled, divisions are kept exact as fractions.                        *)
(***************************************************************************)
EXTENDS Integers, Sequences, FiniteSets, TLC

VARIABLES
    \* depth-datum normaliser: a caller holding a depth series
    depths,       \* the series the caller started with
    is_smp,       \* the instrument flag passed to every call
    formats,      \* the desired_format of each call made so far, in order
    outcome,      \* what the last call to standardize_depth produced
    \* profile aggregator: one ProfileData and the table it was built from
    input_df,        \* the caller's table: [cols, rows]
    variable,        \* the requested variable (a descriptor)
    built,           \* "no", "yes" or "failed": how __init__ ended
    init_error,      \* the exception __init__ raised, if any
    df,              \* ProfileData._df
    sample_columns,  \* ProfileData._sample_columns
    has_layers,      \* ProfileData._has_layers
    stat,            \* the last result read: [name, exc, value]
    \* coordinate and time resolver: one MetaDataParser
    header_obj,      \* the metadata mapping as parsed from the header
    rough_obj,       \* MetaDataParser._rough_obj, as it is now
    input_timezone,  \* MetaDataParser._input_timezone: <<>> is None
    location_cache,  \* MetaDataParser._lat_lon_easting_northing
    location,        \* what the last parse_latitude/parse_longitude gave
    date_time,       \* what the last parse_date_time gave
    date_time_calls, \* how many times parse_date_time was called
    ident,           \* what the last parse_id gave
    record,          \* what parse gave
    \* line classifier: one CSVMetaDataParser
    lines,           \* CSVMetaDataParser.lines: each line a tuple of characters
    allow_split_header_lines,  \* MetaDataParser._allow_split_header_lines
    header,          \* what _find_header_position gave
    \* metadata extractor: one call of _preparse_meta
    meta_lines,      \* the header lines, marker stripped: tuples of characters
    meta,            \* what _preparse_meta gave
    \* column mapper: one call of parse_units
    column_line,     \* self.lines[header_pos]: the line of column labels
    units,           \* what parse_units gave
    \* data cleaner: one call of DataParser._clean_df
    raw_df,          \* the table read from the file
    cleaned,         \* what _clean_df gave
    \* header reader: one call of find_header_info
    file_lines,      \* CSVMetaDataParser.lines of the file read
    site_details,    \* whether the file name contains 'sitedetails'
    split_header,    \* MetaDataParser._allow_split_header_lines
    header_info,     \* what find_header_info gave
    \* snow accessor: one SnowProfile over a dataset
    snow_input,      \* the dataset the accessor was created on
    snow_obj,        \* SnowProfile._obj, as it is now
    swe,             \* what _get_total_swe gave
    deduped          \* what drop_identical_vars gave

depthVars == <<depths, is_smp, formats, outcome>>

profileVars == <<input_df, variable, built, init_error, df, sample_columns,
                 has_layers, stat>>

parserVars == <<header_obj, rough_obj, input_timezone, location_cache,
                location, date_time, date_time_calls, ident, record>>

headerVars == <<lines, allow_split_header_lines, header>>

metaVars == <<meta_lines, meta>>

unitVars == <<column_line, units>>

cleanVars == <<raw_df, cleaned>>

infoVars == <<file_lines, site_details, split_header, header_info>>

snowVars == <<snow_input, snow_obj, swe, deduped>>

\* The variables a component leaves alone: those of the other components.
depthOthers == <<profileVars, parserVars, headerVars, metaVars, unitVars,
                 cleanVars, infoVars, snowVars>>

profileOthers == <<depthVars, parserVars, headerVars, metaVars, unitVars,
                   cleanVars, infoVars, snowVars>>

parserOthers == <<depthVars, profileVars, headerVars, metaVars, unitVars,
                  cleanVars, infoVars, snowVars>>

headerOthers == <<depthVars, profileVars, parserVars, metaVars, unitVars,
                  cleanVars, infoVars, snowVars>>

metaOthers == <<depthVars, profileVars, parserVars, headerVars, unitVars,
                cleanVars, infoVars, snowVars>>

unitOthers == <<depthVars, profileVars, parserVars, headerVars, metaVars,
                cleanVars, infoVars, snowVars>>

cleanOthers == <<depthVars, profileVars, parserVars, headerVars, metaVars,
                 unitVars, infoVars, snowVars>>

infoOthers == <<depthVars, profileVars, parserVars, headerVars, metaVars,
                unitVars, cleanVars, snowVars>>

snowOthers == <<depthVars, profileVars, parserVars, headerVars, metaVars,
                unitVars, cleanVars, infoVars>>

vars == <<depths, is_smp, formats, outcome,
          input_df, variable, built, init_error, df, sample_columns,
          has_layers, stat,
          header_obj, rough_obj, input_timezone, location_cache,
          location, date_time, date_time_calls, ident, record,
          lines, allow_split_header_lines, header,
          meta_lines, meta, column_line, units, raw_df, cleaned,
          file_lines, site_details, split_header, header_info,
          snow_input, snow_obj, swe, deduped>>

(***************************************************************************)
(* Bounds of the model.                                                    *)
(***************************************************************************)
MaxLen == 3        \* longest depth series
MaxDepth == 2      \* depth samples range over -MaxDepth..MaxDepth
MaxCalls == 2      \* calls to standardize_depth chained by one caller
MaxRows == 2       \* most rows (layers) of a profile table
MaxParseCalls == 2 \* calls to parse_date_time on one parser
MaxLines == 3      \* most lines of a file
MaxMetaLines == 2  \* most header lines given to _preparse_meta
MaxTokens == 2     \* most value tokens of a header line
MaxCols == 2       \* most column labels of a column line
MaxCleanRows == 2  \* most rows of a table given to _clean_df
MaxVars == 3       \* most data variables of a dataset
MaxZ == 2          \* most levels of the z dimension of a dataset

(***************************************************************************)
(* Helpers on integers and series.                                         *)
(***************************************************************************)
Abs(x) == IF x < 0 THEN -x ELSE x

SeriesMax(s) == CHOOSE m \in {s[i] : i \in 1..Len(s)} :
                    \A i \in 1..Len(s) : s[i] <= m

SeriesMin(s) == CHOOSE m \in {s[i] : i \in 1..Len(s)} :
                    \A i \in 1..Len(s) : m <= s[i]

\* What a call produced: exc = "none" and a value, or an exception.
\* options is the list of valid formats an invalid-format message enumerates.
Returned(v) == [exc |-> "none", value |-> v, options |-> {}]

Raised(e, opts) == [exc |-> e, value |-> <<>>, options |-> opts]

NotCalled == [exc |-> "not_called", value |-> <<>>, options |-> {}]

(***************************************************************************)
(* standardize_depth (core/profile.py; io/readers.py holds a verbatim      *)
(* copy).  max, min and depths.iloc[-1] are evaluated before the format is *)
(* looked at, so an empty series raises IndexError for every format.       *)
(***************************************************************************)
standardize_depth_wrong_shift(depths_, desired_format, smp) ==
    IF Len(depths_) = 0
    THEN Raised("IndexError", {})
    ELSE
        LET max_depth == SeriesMax(depths_)
            min_depth == SeriesMin(depths_)
            bottom_is_negative == depths_[Len(depths_)] < 0
        IN  IF desired_format = "snow_height"
            THEN IF smp
                 THEN Returned([i \in 1..Len(depths_) |->
                                    Abs(depths_[i] - max_depth)])
                 ELSE IF bottom_is_negative
                      THEN Returned([i \in 1..Len(depths_) |->
                                        depths_[i] + Abs(max_depth)])
                      ELSE Returned(depths_)
            ELSE IF desired_format = "surface_datum"
            THEN IF smp
                 THEN Returned([i \in 1..Len(depths_) |-> -depths_[i]])
                 ELSE IF ~bottom_is_negative
                      THEN Returned([i \in 1..Len(depths_) |->
                                        depths_[i] - max_depth])
                      ELSE Returned(depths_)
            ELSE Raised("ValueError", {"snow_height", "surface_datum"})

\* standardize_depth taking every instrument for a layered one.
standardize_depth_ignoring_smp(depths_, desired_format, smp) ==
    IF Len(depths_) = 0
    THEN Raised("IndexError", {})
    ELSE
        LET max_depth == SeriesMax(depths_)
            min_depth == SeriesMin(depths_)
            bottom_is_negative == depths_[Len(depths_)] < 0
        IN  IF desired_format = "snow_height"
            THEN IF bottom_is_negative
                 THEN Returned([i \in 1..Len(depths_) |->
                                    depths_[i] + Abs(min_depth)])
                 ELSE Returned(depths_)
            ELSE IF desired_format = "surface_datum"
            THEN IF ~bottom_is_negative
                 THEN Returned([i \in 1..Len(depths_) |->
                                    depths_[i] - max_depth])
                 ELSE Returned(depths_)
            ELSE Raised("ValueError", {"snow_height", "surface_datum"})

\* standardize_depth reading the datum off the first sample.
standardize_depth_first_sample(depths_, desired_format, smp) ==
    IF Len(depths_) = 0
    THEN Raised("IndexError", {})
    ELSE
        LET max_depth == SeriesMax(depths_)
            min_depth == SeriesMin(depths_)
            bottom_is_negative == depths_[1] < 0
        IN  IF desired_format = "snow_height"
            THEN IF smp
                 THEN Returned([i \in 1..Len(depths_) |->
                                    Abs(depths_[i] - max_depth)])
                 ELSE IF bottom_is_negative
                      THEN Returned([i \in 1..Len(depths_) |->
                                        depths_[i] + Abs(min_depth)])
                      ELSE Returned(depths_)
            ELSE IF desired_format = "surface_datum"
            THEN IF smp
                 THEN Returned([i \in 1..Len(depths_) |-> -depths_[i]])
                 ELSE IF ~bottom_is_negative
                      THEN Returned([i \in 1..Len(depths_) |->
                                        depths_[i] - max_depth])
                      ELSE Returned(depths_)
            ELSE Raised("ValueError", {"snow_height", "surface_datum"})

standardize_depth(depths_, desired_format, smp) ==
    IF Len(depths_) = 0
    THEN Raised("IndexError", {})
    ELSE
        LET max_depth == SeriesMax(depths_)
            min_depth == SeriesMin(depths_)
            bottom_is_negative == depths_[Len(depths_)] < 0
        IN  IF desired_format = "snow_height"
            THEN IF smp
                 THEN Returned([i \in 1..Len(depths_) |->
                                    Abs(depths_[i] - max_depth)])
                 ELSE IF bottom_is_negative
                      THEN Returned([i \in 1..Len(depths_) |->
                                        depths_[i] + Abs(min_depth)])
                      ELSE Returned(depths_)
            ELSE IF desired_format = "surface_datum"
            THEN IF smp
                 THEN Returned([i \in 1..Len(depths_) |-> -depths_[i]])
                 ELSE IF ~bottom_is_negative
                      THEN Returned([i \in 1..Len(depths_) |->
                                        depths_[i] - max_depth])
                      ELSE Returned(depths_)
            ELSE Raised("ValueError", {"snow_height", "surface_datum"})

(***************************************************************************)
(* The caller of standardize_depth: it starts from a series and feeds the  *)
(* result of each call to the next one, until a call raises.               *)
(***************************************************************************)
DepthSeries == UNION {[1..n -> -MaxDepth..MaxDepth] : n \in 0..MaxLen}

DesiredFormats == {"snow_height", "surface_datum", "ground"}

DepthInit ==
    /\ depths \in DepthSeries
    /\ is_smp \in BOOLEAN
    /\ formats = <<>>
    /\ outcome = NotCalled

DepthIdle ==
    /\ depths = <<>>
    /\ is_smp = FALSE
    /\ formats = <<>>
    /\ outcome = NotCalled

\* The series the next call receives.
CurrentSeries == IF formats = <<>> THEN depths ELSE outcome.value

CallStandardizeDepth(desired_format) ==
    /\ Len(formats) < MaxCalls
    /\ outcome.exc \in {"not_called", "none"}
    /\ outcome' = standardize_depth(CurrentSeries, desired_format, is_smp)
    /\ formats' = Append(formats, desired_format)
    /\ UNCHANGED <<depths, is_smp>>
    /\ UNCHANGED depthOthers

DepthNext == \E f \in DesiredFormats : CallStandardizeDepth(f)

(***************************************************************************)
(* Profile aggregator (core/profile.py, class ProfileData).                *)
(*                                                                         *)
(* A table is [cols |-> sequence of column names, rows |-> sequence of     *)
(* rows]; a row maps each column to a cell; a cell is Null (NaN) or        *)
(* Num(x).  A statistic is NaN, an infinity or an exact fraction n/d.      *)
(***************************************************************************)
Sentinel == -9999

Null == <<>>

Num(x) == <<x>>

Range(f) == {f[i] : i \in DOMAIN f}

Frac(n, d) == [kind |-> "num", n |-> n, d |-> d]

NaN == [kind |-> "nan", n |-> 0, d |-> 1]

Inf(sign) == [kind |-> "inf", n |-> sign, d |-> 1]

\* Two statistics denote the same float.
StatEq(a, b) ==
    /\ a.kind = b.kind
    /\ a.kind = "num" => a.n * b.d = b.n * a.d
    /\ a.kind = "inf" => a.n = b.n

\* Float division num/den, den = 0 included.
Divide(num, den) ==
    IF den # 0 THEN Frac(num, den)
    ELSE IF num = 0 THEN NaN
    ELSE Inf(IF num > 0 THEN 1 ELSE -1)

RECURSIVE SumSkipNa(_, _)
\* pandas' Series.sum() of the first k entries of a sequence of statistics:
\* NaN entries are skipped, the sum of nothing is 0.
SumSkipNa(terms, k) ==
    IF k = 0 THEN Frac(0, 1)
    ELSE LET rest == SumSkipNa(terms, k - 1)
             t == terms[k]
         IN  IF t.kind = "nan" THEN rest
             ELSE IF rest.kind = "nan" THEN rest
             ELSE IF t.kind = "inf"
                  THEN IF rest.kind = "inf" /\ rest.n # t.n THEN NaN ELSE t
             ELSE IF rest.kind = "inf" THEN rest
             ELSE Frac(rest.n * t.d + t.n * rest.d, rest.d * t.d)

\* How many of the entries are not NaN.
CountNotNa(terms) == Cardinality({i \in DOMAIN terms : terms[i].kind # "nan"})

\* The metadata every ProfileData of the model is built with.
TheMetadata ==
    [id |-> "COGMGML_20200203", date_time |-> 1,
     latitude |-> 39, longitude |-> -108]

\* ProfileVariables.from_mapping: the descriptor a column name stands for.
from_mapping(c) ==
    CASE c \in {"depth"} -> "depth"
      [] c \in {"bottom_depth"} -> "bottom_depth"
      [] c \in {"density", "density_a", "density_b"} -> "density"
      [] c \in {"temperature"} -> "temperature"
      [] OTHER -> c

DEPTH == "depth"

BOTTOM_DEPTH == "bottom_depth"

LAYER_THICKNESS == "layer_thickness"

\* df.replace(-9999, np.nan), cell by cell.
replace_sentinel(cell) == IF cell = Num(Sentinel) THEN Null ELSE cell

\* ProfileData._format_df without the replacement of the sentinel.
format_df_keeps_sentinel(input, requested, metadata) ==
    LET columns_to_keep ==
            SelectSeq(input.cols,
                      LAMBDA c : from_mapping(c) \in
                                    {DEPTH, BOTTOM_DEPTH, requested})
        point == <<metadata.longitude, metadata.latitude>>
        out_cols == columns_to_keep \o <<"datetime", "geometry">>
    IN  [cols |-> out_cols,
         rows |-> [i \in 1..Len(input.rows) |->
                    [c \in Range(out_cols) |->
                        IF c = "datetime" THEN Num(metadata.date_time)
                        ELSE IF c = "geometry" THEN point
                        ELSE input.rows[i][c]]]]

\* ProfileData._format_df: keep the depth, bottom-depth and requested
\* columns, add the datetime and geometry columns, replace the sentinel.
format_df(input, requested, metadata) ==
    LET columns_to_keep ==
            SelectSeq(input.cols,
                      LAMBDA c : from_mapping(c) \in
                                    {DEPTH, BOTTOM_DEPTH, requested})
        point == <<metadata.longitude, metadata.latitude>>
        out_cols == columns_to_keep \o <<"datetime", "geometry">>
    IN  [cols |-> out_cols,
         rows |-> [i \in 1..Len(input.rows) |->
                    [c \in Range(out_cols) |->
                        IF c = "datetime" THEN Num(metadata.date_time)
                        ELSE IF c = "geometry" THEN point
                        ELSE replace_sentinel(input.rows[i][c])]]]

\* ProfileData._extend_df: the layer thickness depth - bottom_depth.
extend_df(d, layers) ==
    IF ~layers THEN d
    ELSE [cols |-> Append(d.cols, LAYER_THICKNESS),
          rows |-> [i \in 1..Len(d.rows) |->
                     [c \in Range(d.cols) \cup {LAYER_THICKNESS} |->
                        IF c # LAYER_THICKNESS THEN d.rows[i][c]
                        ELSE IF d.rows[i][DEPTH] = Null
                                \/ d.rows[i][BOTTOM_DEPTH] = Null
                             THEN Null
                             ELSE Num(d.rows[i][DEPTH][1]
                                      - d.rows[i][BOTTOM_DEPTH][1])]]]

NoError == [exc |-> "none", msg |-> "", names |-> {}]

EmptyTable == [cols |-> <<>>, rows |-> <<>>]

\* ProfileData.__init__: the fields of the object, or the exception raised.
\* names holds the names the message of the exception spells out.
ProfileData(input, requested, metadata) ==
    LET formatted == format_df(input, requested, metadata)
        columns == formatted.cols
        samples == SelectSeq(columns, LAMBDA c : from_mapping(c) = requested)
        layers == BOTTOM_DEPTH \in Range(columns)
    IN  IF DEPTH \notin Range(columns)
        THEN [built |-> "failed", df |-> EmptyTable,
              sample_columns |-> <<>>, has_layers |-> FALSE,
              error |-> [exc |-> "ValueError",
                         msg |-> "Expected depth in columns",
                         names |-> {DEPTH}]]
        ELSE IF Len(samples) = 0
        THEN [built |-> "failed", df |-> EmptyTable,
              sample_columns |-> <<>>, has_layers |-> FALSE,
              error |-> [exc |-> "ValueError",
                         msg |-> "No sample columns in",
                         names |-> Range(columns)]]
        ELSE [built |-> "yes", df |-> extend_df(formatted, layers),
              sample_columns |-> samples, has_layers |-> layers,
              error |-> NoError]

\* df.loc[:, sample_columns].mean(axis=1) for one row: the mean of the
\* non-null samples of the row, NaN when there is none.
RowMean(row, samples) ==
    LET cells == [i \in 1..Len(samples) |->
                    IF row[samples[i]] = Null THEN NaN
                    ELSE Frac(row[samples[i]][1], 1)]
        total == SumSkipNa(cells, Len(cells))
    IN  IF CountNotNa(cells) = 0 THEN NaN
        ELSE Frac(total.n, total.d * CountNotNa(cells))

\* ProfileData.mean without its test for a profile of nulls.
mean_without_null_test(d, samples, layers) ==
    LET n == Len(d.rows)
        profile_average == [i \in 1..n |-> RowMean(d.rows[i], samples)]
    IN  IF layers
        THEN LET thickness == [i \in 1..n |->
                                IF d.rows[i][LAYER_THICKNESS] = Null THEN NaN
                                ELSE Frac(d.rows[i][LAYER_THICKNESS][1], 1)]
                 thickness_total == SumSkipNa(thickness, n)
                 weighted == [i \in 1..n |->
                    IF profile_average[i].kind = "nan"
                       \/ thickness[i].kind = "nan"
                    THEN NaN
                    ELSE Divide(profile_average[i].n * thickness[i].n,
                                profile_average[i].d * thickness_total.n)]
             IN  SumSkipNa(weighted, n)
        ELSE LET total == SumSkipNa(profile_average, n)
             IN  Divide(total.n, total.d * CountNotNa(profile_average))

\* ProfileData.mean.
mean(d, samples, layers) ==
    LET n == Len(d.rows)
        profile_average == [i \in 1..n |-> RowMean(d.rows[i], samples)]
    IN  IF \A i \in 1..n : profile_average[i].kind = "nan" THEN NaN
        ELSE IF layers
        THEN LET thickness == [i \in 1..n |->
                                IF d.rows[i][LAYER_THICKNESS] = Null THEN NaN
                                ELSE Frac(d.rows[i][LAYER_THICKNESS][1], 1)]
                 thickness_total == SumSkipNa(thickness, n)
                 weighted == [i \in 1..n |->
                    IF profile_average[i].kind = "nan"
                       \/ thickness[i].kind = "nan"
                    THEN NaN
                    ELSE Divide(profile_average[i].n * thickness[i].n,
                                profile_average[i].d * thickness_total.n)]
             IN  SumSkipNa(weighted, n)
        ELSE LET total == SumSkipNa(profile_average, n)
             IN  Frac(total.n, total.d * CountNotNa(profile_average))

\* ProfileData.total_depth: np.nanmax of the depth column.  An empty column
\* raises ValueError, a column of nulls gives NaN.
total_depth(d) ==
    LET present == {i \in 1..Len(d.rows) : d.rows[i][DEPTH] # Null}
    IN  IF Len(d.rows) = 0
        THEN [exc |-> "ValueError", value |-> NaN]
        ELSE IF present = {}
        THEN [exc |-> "none", value |-> NaN]
        ELSE [exc |-> "none",
              value |-> Frac(CHOOSE m \in {d.rows[i][DEPTH][1] : i \in present} :
                                \A i \in present : d.rows[i][DEPTH][1] <= m,
                             1)]

\* The cell holding a row mean: null, or the fraction n/d.
MeanCell(row, samples) ==
    IF RowMean(row, samples).kind = "nan" THEN Null
    ELSE <<RowMean(row, samples).n, RowMean(row, samples).d>>

\* d with d[name] = profile_average: the column is added, or overwritten.
with_row_means(d, name, samples) ==
    [cols |-> IF name \in Range(d.cols) THEN d.cols ELSE Append(d.cols, name),
     rows |-> [i \in 1..Len(d.rows) |->
                [c \in Range(d.cols) \cup {name} |->
                    IF c = name THEN MeanCell(d.rows[i], samples)
                    ELSE d.rows[i][c]]]]

\* ProfileData.sum, past its test for layers: self._df["mean"] = ...
sum(d, samples) == with_row_means(d, "mean", samples)

\* ProfileData.get_profile: a copy of the table with the row means under
\* the name of the variable, cut down to the columns of interest.
get_profile(d, samples, requested) ==
    LET copy == with_row_means(d, requested, samples)
        columns_of_interest ==
            SelectSeq(<<DEPTH, BOTTOM_DEPTH, "datetime", "geometry">>,
                      LAMBDA c : c \in Range(d.cols)) \o <<requested>>
    IN  [cols |-> columns_of_interest,
         rows |-> [i \in 1..Len(copy.rows) |->
                    [c \in Range(columns_of_interest) |-> copy.rows[i][c]]]]

(***************************************************************************)
(* The tables and requests of the model.                                   *)
(***************************************************************************)
TableShapes ==
    { [cols |-> <<"depth", "bottom_depth", "density">>,
       cells |-> [depth |-> {Num(Sentinel), Num(8), Num(10)},
                  bottom_depth |-> {Num(Sentinel), Num(4), Num(8)},
                  density |-> {Null, Num(Sentinel), Num(2), Num(6)}]],
      [cols |-> <<"depth", "density">>,
       cells |-> [depth |-> {Null, Num(Sentinel), Num(8), Num(10)},
                  density |-> {Null, Num(Sentinel), Num(2), Num(6)}]],
      [cols |-> <<"depth", "density_a", "density_b">>,
       cells |-> [depth |-> {Num(Sentinel), Num(10)},
                  density_a |-> {Null, Num(Sentinel), Num(2), Num(6)},
                  density_b |-> {Num(Sentinel), Num(6)}]],
      [cols |-> <<"depth", "temperature">>,
       cells |-> [depth |-> {Num(8), Num(10)},
                  temperature |-> {Null, Num(2)}]],
      [cols |-> <<"density", "temperature">>,
       cells |-> [density |-> {Num(2)},
                  temperature |-> {Num(2)}]] }

AllCells == UNION {UNION Range(shape.cells) : shape \in TableShapes}

RowsOf(shape) ==
    {r \in [Range(shape.cols) -> AllCells] :
        \A c \in Range(shape.cols) : r[c] \in shape.cells[c]}

Requests == {"density", "temperature"}

NoStat == [name |-> "none", exc |-> "none", value |-> NaN]

ProfileInit ==
    /\ \E shape \in TableShapes : \E n \in 0..MaxRows :
          \E rows \in [1..n -> RowsOf(shape)] :
              input_df = [cols |-> shape.cols, rows |-> rows]
    /\ variable \in Requests
    /\ built = "no"
    /\ init_error = NoError
    /\ df = EmptyTable
    /\ sample_columns = <<>>
    /\ has_layers = FALSE
    /\ stat = NoStat

ProfileIdle ==
    /\ input_df = EmptyTable
    /\ variable = "density"
    /\ built = "no"
    /\ init_error = NoError
    /\ df = EmptyTable
    /\ sample_columns = <<>>
    /\ has_layers = FALSE
    /\ stat = NoStat

\* obj = ProfileData(input_df, metadata, variable)
Construct ==
    /\ built = "no"
    /\ LET obj == ProfileData(input_df, variable, TheMetadata)
       IN  /\ built' = obj.built
           /\ init_error' = obj.error
           /\ df' = obj.df
           /\ sample_columns' = obj.sample_columns
           /\ has_layers' = obj.has_layers
    /\ UNCHANGED <<input_df, variable, stat>>
    /\ UNCHANGED profileOthers

\* obj.mean
ReadMean ==
    /\ built = "yes"
    /\ stat' = [name |-> "mean", exc |-> "none",
                value |-> mean(df, sample_columns, has_layers)]
    /\ UNCHANGED <<input_df, variable, built, init_error, df,
                   sample_columns, has_layers>>
    /\ UNCHANGED profileOthers

\* obj.total_depth
ReadTotalDepth ==
    /\ built = "yes"
    /\ stat' = [name |-> "total_depth", exc |-> total_depth(df).exc,
                value |-> total_depth(df).value]
    /\ UNCHANGED <<input_df, variable, built, init_error, df,
                   sample_columns, has_layers>>
    /\ UNCHANGED profileOthers

\* obj.sum
ReadSum ==
    /\ built = "yes"
    /\ IF ~has_layers
       THEN /\ stat' = [name |-> "sum", exc |-> "RuntimeError", value |-> NaN]
            /\ df' = df
       ELSE /\ stat' = [name |-> "sum", exc |-> "none", value |-> NaN]
            /\ df' = sum(df, sample_columns)
    /\ UNCHANGED <<input_df, variable, built, init_error, sample_columns,
                   has_layers>>
    /\ UNCHANGED profileOthers

\* obj.get_profile()
GetProfile ==
    /\ built = "yes"
    /\ stat' = [name |-> "get_profile", exc |-> "none",
                value |-> get_profile(df, sample_columns, variable)]
    /\ UNCHANGED <<input_df, variable, built, init_error, df,
                   sample_columns, has_layers>>
    /\ UNCHANGED profileOthers

ProfileNext ==
    \/ Construct
    \/ ReadMean
    \/ ReadTotalDepth
    \/ ReadSum
    \/ GetProfile


(***************************************************************************)
(* C1 (as the spec states it): for every depth series and either flag,     *)
(* converting to "surface_datum" and back to "snow_height" gives back the  *)
(* original series.                                                        *)
(***************************************************************************)
RoundTripMade == formats = <<"surface_datum", "snow_height">>

C1_RoundTripEverySeries ==
    RoundTripMade => (outcome.exc = "none" /\ outcome.value = depths)

\* The series the round trip does reproduce: those already in snow_height
\* datum (minimum 0) that the code recognises as such after the first
\* conversion (SMP, or last sample below the maximum), and the series of a
\* non-SMP instrument whose last sample and maximum are both 0, which both
\* conversions leave alone.
RoundTripReproduces(s, smp) ==
    /\ Len(s) > 0
    /\ IF smp
       THEN SeriesMin(s) = 0
       ELSE \/ SeriesMin(s) = 0 /\ s[Len(s)] < SeriesMax(s)
            \/ s[Len(s)] = 0 /\ SeriesMax(s) = 0

(***************************************************************************)
(* C1 (amended): the round trip surface_datum -> snow_height reproduces    *)
(* the series exactly when its minimum is 0 and (is_smp, or the last       *)
(* sample is below the maximum), or, with is_smp false, when the last      *)
(* sample and the maximum are both 0; for every other series the result    *)
(* differs from the original.                                              *)
(***************************************************************************)
C1_RoundTrip ==
    RoundTripMade =>
        /\ outcome.exc = "none"
        /\ (outcome.value = depths) <=> RoundTripReproduces(depths, is_smp)

C1_Witness ==
    /\ RoundTripMade
    /\ ~is_smp
    /\ Len(depths) >= 2
    /\ depths[1] > 0
    /\ outcome.value = depths

(***************************************************************************)
(* C5: for every depth series, the empty one included, a desired_format    *)
(* other than "snow_height" and "surface_datum" makes standardize_depth    *)
(* fail with the invalid-format ValueError listing the two valid options.  *)
(***************************************************************************)
ValidFormats == {"snow_height", "surface_datum"}

C5_InvalidFormatRaisesInvalidDatum ==
    (formats # <<>> /\ formats[Len(formats)] \notin ValidFormats) =>
        (outcome.exc = "ValueError" /\ outcome.options = ValidFormats)

\* The format and the series of the latest call.
LastFormat == formats[Len(formats)]

RECURSIVE SeriesAfter(_)
\* The series the caller holds after its first k calls.
SeriesAfter(k) ==
    IF k = 0 THEN depths
    ELSE standardize_depth(SeriesAfter(k - 1), formats[k], is_smp).value

LastInput == SeriesAfter(Len(formats) - 1)

\* The latest call converted a non-empty series to a valid format.
Converted ==
    /\ formats # <<>>
    /\ LastFormat \in ValidFormats
    /\ Len(LastInput) > 0

(***************************************************************************)
(* C21: with is_smp true, the result of standardize_depth holds in every   *)
(* row i |depth[i] - max(depth)| for "snow_height" and -depth[i] for       *)
(* "surface_datum", whatever the sign of the last sample.                  *)
(***************************************************************************)
C21_SmpConversion ==
    (Converted /\ is_smp) =>
        /\ outcome.exc = "none"
        /\ Len(outcome.value) = Len(LastInput)
        /\ \A i \in 1..Len(LastInput) :
            outcome.value[i] =
                IF LastFormat = "snow_height"
                THEN Abs(LastInput[i] - SeriesMax(LastInput))
                ELSE -LastInput[i]

C21_Witness ==
    /\ formats = <<"snow_height">>
    /\ is_smp
    /\ Len(depths) = 3
    /\ depths[3] < 0
    /\ depths[1] > 0
    /\ outcome.value[3] = depths[1] - depths[3]

(***************************************************************************)
(* C22: with is_smp false, the sign of the last sample alone decides: to   *)
(* "snow_height" the result is depth + |min(depth)| when the last sample   *)
(* is negative and the series itself otherwise; to "surface_datum" it is   *)
(* depth - max(depth) when the last sample is not negative and the series  *)
(* itself otherwise.  The result has the length and row order of the       *)
(* input.                                                                  *)
(***************************************************************************)
C22_LayeredConversion ==
    (Converted /\ ~is_smp) =>
        LET last == LastInput[Len(LastInput)]
            shift == IF LastFormat = "snow_height"
                     THEN IF last < 0 THEN Abs(SeriesMin(LastInput)) ELSE 0
                     ELSE IF last >= 0 THEN -SeriesMax(LastInput) ELSE 0
        IN  /\ outcome.exc = "none"
            /\ Len(outcome.value) = Len(LastInput)
            /\ \A i \in 1..Len(LastInput) :
                outcome.value[i] = LastInput[i] + shift

C22_Witness ==
    /\ formats = <<"snow_height">>
    /\ ~is_smp
    /\ Len(depths) = 3
    /\ depths[1] < 0
    /\ depths[2] > depths[1]
    /\ depths[3] < depths[1]
    /\ outcome.value[3] = 0
    /\ outcome.value[1] = depths[1] - depths[3]

(***************************************************************************)
(* C26: standardize_depth is idempotent for each target datum: converting  *)
(* the result of a conversion to the same format again, with the same      *)
(* instrument flag, returns that result.                                   *)
(***************************************************************************)
SameFormatTwice ==
    /\ Len(formats) = 2
    /\ formats[1] = formats[2]
    /\ formats[1] \in ValidFormats
    /\ Len(depths) > 0

C26_Idempotent ==
    SameFormatTwice =>
        /\ outcome.exc = "none"
        /\ outcome.value = LastInput

\* The series on which a second conversion changes nothing.
SecondConversionChangesNothing(s, f, smp) ==
    \/ ~smp
    \/ f = "snow_height" /\ SeriesMin(s) = SeriesMax(s)
    \/ f = "surface_datum" /\ \A i \in 1..Len(s) : s[i] = 0

(***************************************************************************)
(* C26 (amended): with is_smp false the second conversion to the same      *)
(* format returns the first result for every non-empty series; with is_smp *)
(* true it does so exactly for a constant series ("snow_height") and for   *)
(* an all-zero series ("surface_datum").                                   *)
(***************************************************************************)
C26_IdempotentForLayered ==
    SameFormatTwice =>
        /\ outcome.exc = "none"
        /\ (outcome.value = LastInput)
              <=> SecondConversionChangesNothing(depths, formats[1], is_smp)

C26_Witness ==
    /\ SameFormatTwice
    /\ ~is_smp
    /\ formats[1] = "snow_height"
    /\ Len(depths) = 3
    /\ depths[3] < 0
    /\ LastInput # depths
    /\ outcome.value = LastInput

(***************************************************************************)
(* C27: the result of standardize_depth is in the requested datum for      *)
(* every input series and either instrument flag: a "snow_height" result   *)
(* has every value >= 0 and minimum 0, a "surface_datum" result has every  *)
(* value <= 0 and maximum 0.                                               *)
(***************************************************************************)
InDatum(s, f) ==
    IF f = "snow_height"
    THEN (\A i \in 1..Len(s) : s[i] >= 0) /\ SeriesMin(s) = 0
    ELSE (\A i \in 1..Len(s) : s[i] <= 0) /\ SeriesMax(s) = 0

C27_ResultIsInRequestedDatum ==
    Converted => (outcome.exc = "none" /\ InDatum(outcome.value, LastFormat))

\* The part of C27 the code does satisfy: the penetrometer conversion to
\* "snow_height", and the layered conversions that shift the series.
ResultIsInDatumWhenShifted ==
    (Converted
        /\ \/ is_smp /\ LastFormat = "snow_height"
           \/ ~is_smp /\ LastFormat = "snow_height"
                  /\ LastInput[Len(LastInput)] < 0
           \/ ~is_smp /\ LastFormat = "surface_datum"
                  /\ LastInput[Len(LastInput)] >= 0) =>
        (outcome.exc = "none" /\ InDatum(outcome.value, LastFormat))

(***************************************************************************)
(* Claims about the profile aggregator.                                    *)
(***************************************************************************)
\* The mean as the spec defines it for a layered table: both sums range over
\* the rows whose row mean is non-null (and whose thickness is known).
ClaimedWeightedMean(d, samples) ==
    LET n == Len(d.rows)
        profile_average == [i \in 1..n |-> RowMean(d.rows[i], samples)]
        counted(i) == /\ profile_average[i].kind # "nan"
                      /\ d.rows[i][LAYER_THICKNESS] # Null
        products == [i \in 1..n |->
                        IF counted(i)
                        THEN Frac(profile_average[i].n
                                    * d.rows[i][LAYER_THICKNESS][1],
                                  profile_average[i].d)
                        ELSE NaN]
        weights == [i \in 1..n |->
                        IF counted(i)
                        THEN Frac(d.rows[i][LAYER_THICKNESS][1], 1)
                        ELSE NaN]
        num == SumSkipNa(products, n)
        den == SumSkipNa(weights, n)
    IN  IF den.n = 0 THEN NaN ELSE Frac(num.n, num.d * den.n)

\* The arithmetic mean of the non-null row means.
ArithmeticMean(d, samples) ==
    LET n == Len(d.rows)
        profile_average == [i \in 1..n |-> RowMean(d.rows[i], samples)]
        total == SumSkipNa(profile_average, n)
    IN  IF CountNotNa(profile_average) = 0 THEN NaN
        ELSE Frac(total.n, total.d * CountNotNa(profile_average))

(***************************************************************************)
(* C2: for a layered table ProfileData.mean is                             *)
(* sum(row_mean * thickness) / sum(thickness), both sums over the rows     *)
(* whose row mean is non-null; for a table with no bottom column it is the *)
(* arithmetic mean of the non-null row means.                              *)
(***************************************************************************)
C2_MeanIsWeightedOverNonNullRows ==
    (stat.name = "mean") =>
        IF has_layers
        THEN ClaimedWeightedMean(df, sample_columns).kind = "num" =>
                StatEq(stat.value, ClaimedWeightedMean(df, sample_columns))
        ELSE ArithmeticMean(df, sample_columns).kind = "num" =>
                StatEq(stat.value, ArithmeticMean(df, sample_columns))

\* The part of C2 the code does satisfy: tables without layers, and the
\* layered tables in which every row with a known thickness has a row mean.
MeanWhereEveryLayerIsSampled ==
    (/\ stat.name = "mean"
     /\ has_layers =>
            \A i \in 1..Len(df.rows) :
                df.rows[i][LAYER_THICKNESS] # Null =>
                    RowMean(df.rows[i], sample_columns).kind # "nan") =>
        IF has_layers
        THEN ClaimedWeightedMean(df, sample_columns).kind = "num" =>
                StatEq(stat.value, ClaimedWeightedMean(df, sample_columns))
        ELSE ArithmeticMean(df, sample_columns).kind = "num" =>
                StatEq(stat.value, ArithmeticMean(df, sample_columns))

\* The example of the spec: layers (10, 8, 2) and (8, 4, 6) give 28/6.
MeanOfSpecExample ==
    (/\ stat.name = "mean"
     /\ input_df.cols = <<"depth", "bottom_depth", "density">>
     /\ input_df.rows =
            << [depth |-> Num(10), bottom_depth |-> Num(8), density |-> Num(2)],
               [depth |-> Num(8), bottom_depth |-> Num(4), density |-> Num(6)] >>)
        => StatEq(stat.value, Frac(28, 6))

\* The caller's table with every sentinel cell of the depth column and of
\* the sample columns of the requested variable made missing.
TreatSentinelAsMissing(input, requested) ==
    [cols |-> input.cols,
     rows |-> [i \in 1..Len(input.rows) |->
                [c \in Range(input.cols) |->
                    IF /\ from_mapping(c) \in {DEPTH, requested}
                       /\ input.rows[i][c] = Num(Sentinel)
                    THEN Null
                    ELSE input.rows[i][c]]]]

\* The depth values of the caller's table that are not missing.
KnownDepths(input) ==
    {input.rows[i][DEPTH][1] : i \in
        {j \in 1..Len(input.rows) :
            input.rows[j][DEPTH] \notin {Null, Num(Sentinel)}}}

(***************************************************************************)
(* C3: a -9999 cell in a sample column or in the depth column never        *)
(* contributes to mean or total_depth: both equal what the same table with *)
(* those cells missing gives, no such cell is left in the object's table,  *)
(* and total_depth is the maximum of the non-missing depth values.         *)
(***************************************************************************)
C3_SentinelNeverContributes ==
    (built = "yes") =>
        LET ref == ProfileData(TreatSentinelAsMissing(input_df, variable),
                               variable, TheMetadata)
        IN  /\ \A i \in 1..Len(df.rows) :
                  \A c \in {DEPTH} \cup Range(sample_columns) :
                      df.rows[i][c] # Num(Sentinel)
            /\ stat.name = "mean" =>
                  StatEq(stat.value,
                         mean(ref.df, ref.sample_columns, ref.has_layers))
            /\ stat.name = "total_depth" =>
                  /\ stat.exc = total_depth(ref.df).exc
                  /\ StatEq(stat.value, total_depth(ref.df).value)
                  /\ KnownDepths(input_df) # {} =>
                        /\ stat.value.kind = "num"
                        /\ stat.value.d = 1
                        /\ stat.value.n \in KnownDepths(input_df)
                        /\ \A x \in KnownDepths(input_df) : x <= stat.value.n

C3_Witness ==
    /\ built = "yes"
    /\ stat.name = "mean"
    /\ stat.value.kind = "num"
    /\ Len(input_df.rows) = 2
    /\ input_df.rows[1][DEPTH] = Num(Sentinel)
    /\ \E c \in Range(sample_columns) : input_df.rows[2][c] = Num(Sentinel)

(***************************************************************************)
(* C4: constructing a ProfileData for a variable none of whose sample      *)
(* columns is in the table always fails, and the error names both the      *)
(* requested variable and the columns available in the table.              *)
(***************************************************************************)
VariableAbsent ==
    \A c \in Range(input_df.cols) : from_mapping(c) # variable

C4_AbsentVariableErrorNamesVariableAndColumns ==
    (built # "no" /\ VariableAbsent) =>
        /\ built = "failed"
        /\ init_error.exc # "none"
        /\ variable \in init_error.names
        /\ Range(input_df.cols) \subseteq init_error.names

\* The part of C4 the code does satisfy: the construction always fails.
AbsentVariableAlwaysFails ==
    (built # "no" /\ VariableAbsent) =>
        (built = "failed" /\ init_error.exc = "ValueError")

(***************************************************************************)
(* Coordinate resolver (io/readers.py, class MetaDataParser).              *)
(*                                                                         *)
(* rough_obj maps the keys present in the header to their values.  The     *)
(* values of the location keys are the strings the header holds: Text(x)   *)
(* is a string whose float() is x, Chars(s) a string given character by    *)
(* character.                                                              *)
(***************************************************************************)
Absent == [kind |-> "absent"]

Text(x) == [kind |-> "str", float |-> x]

Chars(s) == [kind |-> "str", chars |-> s]

\* The mapping holding the entries of `entries` (key -> value) that are
\* not Absent.
Mapping(entries) ==
    [k \in {key \in DOMAIN entries : entries[key] # Absent} |-> entries[k]]

LAT_NAMES == {"lat", "latitude"}

LON_NAMES == {"lon", "longitude", "long"}

NORTHERN_HEMISPHERE == TRUE

RECURSIVE StripLeft(_, _)
StripLeft(s, ch) ==
    IF s # <<>> /\ Head(s) = ch THEN StripLeft(Tail(s), ch) ELSE s

RECURSIVE StripRight(_, _)
StripRight(s, ch) ==
    IF s # <<>> /\ s[Len(s)] = ch
    THEN StripRight(SubSeq(s, 1, Len(s) - 1), ch)
    ELSE s

\* str.strip(ch)
Strip(s, ch) == StripRight(StripLeft(s, ch), ch)

\* s[-2:]
LastTwo(s) == IF Len(s) > 2 THEN SubSeq(s, Len(s) - 1, Len(s)) ELSE s

DigitOf(ch) ==
    CASE ch = "0" -> 0 [] ch = "1" -> 1 [] ch = "2" -> 2 [] ch = "3" -> 3
      [] ch = "4" -> 4 [] ch = "5" -> 5 [] ch = "6" -> 6 [] ch = "7" -> 7
      [] ch = "8" -> 8 [] ch = "9" -> 9

RECURSIVE ToInt(_)
\* int(s) of a string of digits
ToInt(s) ==
    IF s = <<>> THEN 0
    ELSE 10 * ToInt(SubSeq(s, 1, Len(s) - 1)) + DigitOf(s[Len(s)])

\* MetaDataParser.parse_utm_epsg (the definition at line 333, which
\* replaces the one at line 280).  Header values are strings, so the values
\* of "latitude" and "longitude" are truthy whenever the keys are there, and
\* utm.latlon_to_zone_number then compares strings with numbers.
parse_utm_epsg(obj) ==
    IF "utm_zone" \in DOMAIN obj
    THEN LET stripped == Strip(Strip(obj["utm_zone"].chars, "N"), "S")
             utm_zone == LastTwo(stripped)
         IN  IF Len(utm_zone) = 2
             THEN [exc |-> "none", zone |-> utm_zone]
             ELSE [exc |-> "AssertionError", zone |-> <<>>]
    ELSE IF "latitude" \notin DOMAIN obj
    THEN [exc |-> "KeyError", zone |-> <<>>]
    ELSE IF "longitude" \notin DOMAIN obj
    THEN [exc |-> "KeyError", zone |-> <<>>]
    ELSE [exc |-> "TypeError", zone |-> <<>>]

\* A coordinate: None, a float, or a coordinate utm.to_latlon computed.
NoCoord == [kind |-> "none", v |-> 0, of |-> <<>>]

Float(x) == [kind |-> "float", v |-> x, of |-> <<>>]

\* utm.to_latlon(easting, northing, zone_number, northern=...)[axis]
to_latlon(axis, easting, northing, zone_number, northern) ==
    [kind |-> axis, v |-> 0,
     of |-> <<easting, northing, zone_number,
              IF northern THEN "north" ELSE "south">>]

\* Python's truth value of an optional float: None and 0.0 are false.
Truthy(coord) == coord.kind # "none" /\ coord.v # 0

\* The value the loop of _parse_location leaves in one of its four locals:
\* float(v) of the entry whose key is one of `names` (the last one wins).
LastOf(obj, names) ==
    IF DOMAIN obj \cap names = {} THEN NoCoord
    ELSE Float(obj[CHOOSE k \in DOMAIN obj \cap names : TRUE].float)

LocationFailed(e) ==
    [exc |-> e, lat |-> NoCoord, lon |-> NoCoord,
     easting |-> NoCoord, northing |-> NoCoord]

\* MetaDataParser._parse_location
parse_location(obj) ==
    LET lat == LastOf(obj, LAT_NAMES)
        lon == LastOf(obj, LON_NAMES)
        easting == LastOf(obj, {"easting"})
        northing == LastOf(obj, {"northing"})
    IN  IF Truthy(lat) /\ Truthy(lon)
        THEN [exc |-> "none", lat |-> lat, lon |-> lon,
              easting |-> easting, northing |-> northing]
        ELSE IF Truthy(easting) /\ Truthy(northing)
        THEN LET zone == parse_utm_epsg(obj)
             IN  IF zone.exc # "none" THEN LocationFailed(zone.exc)
                 ELSE [exc |-> "none",
                       lat |-> to_latlon("utm_lat", easting.v, northing.v,
                                         ToInt(LastTwo(zone.zone)),
                                         NORTHERN_HEMISPHERE),
                       lon |-> to_latlon("utm_lon", easting.v, northing.v,
                                         ToInt(LastTwo(zone.zone)),
                                         NORTHERN_HEMISPHERE),
                       easting |-> easting, northing |-> northing]
        ELSE LocationFailed("ValueError")

NoLocation == [exc |-> "not_called", axis |-> "", value |-> NoCoord]

NoCache == [exc |-> "unset", lat |-> NoCoord, lon |-> NoCoord,
            easting |-> NoCoord, northing |-> NoCoord]

\* The property lat_lon_easting_northing: computed once, then cached; an
\* exception leaves the cache unset.
lat_lon_easting_northing ==
    IF location_cache.exc = "unset" THEN parse_location(rough_obj)
    ELSE location_cache

NoDateTime == [exc |-> "not_called", msg |-> "", resolved |-> <<>>,
               hours |-> 0, aware |-> FALSE]

\* A metadata value that is None (a key with an empty value).
NoValue == [kind |-> "none"]

NoIdent == [exc |-> "not_called", value |-> NoValue]

NoMetadata ==
    [exc |-> "not_called", step |-> "", id |-> NoValue,
     date_time |-> NoDateTime, latitude |-> NoCoord, longitude |-> NoCoord]

LocationValues ==
    [lat |-> {Text(0), Text(39)},
     lon |-> {Text(0), Text(-108)},
     easting |-> {Text(0), Text(329131)},
     northing |-> {Text(0), Text(4310328)},
     utm_zone |-> {Chars(<<"1", "3", "N">>), Chars(<<"1", "2">>)}]

Optional(values) == {Absent} \cup values

LocationInit ==
    /\ \E lat_key \in LAT_NAMES, lon_key \in {"lon", "longitude"} :
        \E lat \in Optional(LocationValues.lat),
           lon \in Optional(LocationValues.lon),
           easting \in Optional(LocationValues.easting),
           northing \in Optional(LocationValues.northing),
           utm_zone \in Optional(LocationValues.utm_zone) :
            header_obj =
                Mapping([k \in {lat_key, lon_key, "easting", "northing",
                                "utm_zone"} |->
                            CASE k = lat_key -> lat
                              [] k = lon_key -> lon
                              [] k = "easting" -> easting
                              [] k = "northing" -> northing
                              [] k = "utm_zone" -> utm_zone])
    /\ rough_obj = header_obj
    /\ input_timezone = <<>>
    /\ location_cache = NoCache
    /\ location = NoLocation
    /\ date_time = NoDateTime
    /\ date_time_calls = 0
    /\ ident = NoIdent
    /\ record = NoMetadata

ParserIdle ==
    /\ header_obj = <<>>
    /\ rough_obj = <<>>
    /\ input_timezone = <<>>
    /\ location_cache = NoCache
    /\ location = NoLocation
    /\ date_time = NoDateTime
    /\ date_time_calls = 0
    /\ ident = NoIdent
    /\ record = NoMetadata

\* parser.parse_latitude()
ParseLatitude ==
    /\ location.exc = "not_called"
    /\ LET got == lat_lon_easting_northing
       IN  /\ location' = [exc |-> got.exc, axis |-> "latitude",
                           value |-> got.lat]
           /\ location_cache' = IF got.exc = "none" THEN got ELSE NoCache
    /\ UNCHANGED <<header_obj, rough_obj, input_timezone, date_time,
                   date_time_calls, ident, record>>
    /\ UNCHANGED parserOthers

\* parser.parse_longitude()
ParseLongitude ==
    /\ location.exc \in {"not_called", "none"}
    /\ location.axis # "longitude"
    /\ LET got == lat_lon_easting_northing
       IN  /\ location' = [exc |-> got.exc, axis |-> "longitude",
                           value |-> got.lon]
           /\ location_cache' = IF got.exc = "none" THEN got ELSE NoCache
    /\ UNCHANGED <<header_obj, rough_obj, input_timezone, date_time,
                   date_time_calls, ident, record>>
    /\ UNCHANGED parserOthers

LocationNext ==
    \/ ParseLatitude
    \/ ParseLongitude

(***************************************************************************)
(* C6: location resolution follows the preference order: latitude and      *)
(* longitude keys both present (any numeric value, 0 included) give those  *)
(* values unchanged; otherwise easting, northing and UTM zone all present  *)
(* give the UTM inverse projection with the northern-hemisphere default;   *)
(* otherwise the call fails with the location-resolution error.            *)
(***************************************************************************)
HasLatLon(obj) ==
    DOMAIN obj \cap LAT_NAMES # {} /\ DOMAIN obj \cap LON_NAMES # {}

HasUtm(obj) == {"easting", "northing", "utm_zone"} \subseteq DOMAIN obj

C6_LocationPreferenceOrder ==
    (location.exc # "not_called") =>
        LET lat == LastOf(header_obj, LAT_NAMES)
            lon == LastOf(header_obj, LON_NAMES)
            zone == ToInt(LastTwo(Strip(Strip(header_obj["utm_zone"].chars,
                                              "N"), "S")))
        IN  IF HasLatLon(header_obj)
            THEN /\ location.exc = "none"
                 /\ location.value =
                        IF location.axis = "latitude" THEN lat ELSE lon
            ELSE IF HasUtm(header_obj)
            THEN /\ location.exc = "none"
                 /\ location.value =
                        to_latlon(IF location.axis = "latitude"
                                  THEN "utm_lat" ELSE "utm_lon",
                                  header_obj["easting"].float,
                                  header_obj["northing"].float,
                                  zone, TRUE)
            ELSE location.exc = "ValueError"

\* The part of C6 the code does satisfy: the order, for coordinates that
\* are not 0.
LocationPreferenceOrderNonZero ==
    (/\ location.exc # "not_called"
     /\ \A k \in DOMAIN header_obj \ {"utm_zone"} :
            header_obj[k].float # 0) =>
        LET lat == LastOf(header_obj, LAT_NAMES)
            lon == LastOf(header_obj, LON_NAMES)
        IN  IF HasLatLon(header_obj)
            THEN /\ location.exc = "none"
                 /\ location.value =
                        IF location.axis = "latitude" THEN lat ELSE lon
            ELSE IF HasUtm(header_obj)
            THEN /\ location.exc = "none"
                 /\ location.value.kind \in {"utm_lat", "utm_lon"}
            ELSE location.exc \in {"ValueError", "KeyError", "TypeError"}

(***************************************************************************)
(* Time resolver (io/readers.py, MetaDataParser.parse_date_time).          *)
(*                                                                         *)
(* Time is counted in whole hours from 2020-01-01 00:00; a date is a day   *)
(* number from 2020-01-01 (day 0).  A header value is None or a string of  *)
(* a known form; parse_date_time writes date and time objects back into    *)
(* rough_obj.  A timestamp is [hours, aware]: aware timestamps are UTC.    *)
(***************************************************************************)
NoneValue == [kind |-> "none", form |-> "", day |-> 0, hour |-> 0]

\* forms: "date" (2020-02-03), "datetime" (2020-02-03T14:00), "mmddyy"
\* (020420), "time" (14:00), "nan" (the missing marker), "year", "doy",
\* "hhmmss".
Str(form, day, hour) ==
    [kind |-> "str", form |-> form, day |-> day, hour |-> hour]

DateObject(day) == [kind |-> "date", form |-> "", day |-> day, hour |-> 0]

TimeObject(hour) == [kind |-> "time", form |-> "utc", day |-> 0, hour |-> hour]

Timestamp(hours, aware) == [hours |-> hours, aware |-> aware]

DT_KEY == "date/local_standard_time"

OUT_TIMEZONE == "UTC"

\* The offset from UTC, in hours, of the time zones of the model (standard
\* time: the dates of the model are in winter).
UtcOffset(tz) ==
    CASE tz = "US/Mountain" -> -7
      [] tz = "Asia/Tokyo" -> 9
      [] tz = "UTC" -> 0

\* StringManager.parse_none: the missing marker becomes None.
parse_none(v) ==
    IF v.kind = "none" \/ (v.kind = "str" /\ v.form = "nan")
    THEN NoneValue ELSE v

\* pd.to_datetime of a date string, a date-and-time string or a date object.
to_datetime(v) ==
    CASE v.kind = "str" /\ v.form = "date" -> Timestamp(24 * v.day, FALSE)
      [] v.kind = "str" /\ v.form = "datetime" ->
            Timestamp(24 * v.day + v.hour, FALSE)
      [] v.kind = "date" -> Timestamp(24 * v.day, FALSE)

Resolved(obj, d) == [exc |-> "none", msg |-> "", obj |-> obj, d |-> d]

Unresolved(e, msg, obj) ==
    [exc |-> e, msg |-> msg, obj |-> obj, d |-> Timestamp(0, FALSE)]

DayOfYearKeys == {"utcyear", "utcdoy", "utctod"}

\* _handle_separate_datetime without the branch for a 'date' key alone.
handle_separate_datetime_three_paths(obj) ==
    IF "date" \in DOMAIN obj /\ "time" \in DOMAIN obj
    THEN IF obj["date"].kind # "str"
         THEN Unresolved("TypeError", "object has no len()", obj)
         ELSE LET obj1 == IF obj["date"].form = "mmddyy"
                          THEN [obj EXCEPT
                                  !["date"] = Str("date", @.day, 0),
                                  !["time"] = parse_none(@)]
                          ELSE obj
              IN  IF obj1["time"].kind = "none"
                  THEN Resolved(obj1, to_datetime(obj1["date"]))
                  ELSE IF obj1["time"].kind = "str"
                          /\ obj1["time"].form = "time"
                  THEN Resolved(obj1,
                                Timestamp(24 * obj1["date"].day
                                            + obj1["time"].hour, FALSE))
                  ELSE Unresolved("ValueError", "unknown datetime string",
                                  obj1)
    ELSE IF DayOfYearKeys \subseteq DOMAIN obj
    THEN LET base == 24 * obj["utcyear"].day
             d == obj["utcdoy"].day - 1
             hr == obj["utctod"].hour
         IN  Resolved(obj, Timestamp(base + 24 * d + hr, TRUE))
    ELSE Unresolved("ValueError", "Data is missing date/time info!", obj)

\* MetaDataParser._handle_separate_datetime: the resolved timestamp d, or
\* the exception raised, and rough_obj as the call leaves it.
handle_separate_datetime(obj) ==
    IF "date" \in DOMAIN obj /\ "time" \in DOMAIN obj
    THEN IF obj["date"].kind # "str"
         THEN Unresolved("TypeError", "object has no len()", obj)
         ELSE LET obj1 == IF obj["date"].form = "mmddyy"
                          THEN [obj EXCEPT
                                  !["date"] = Str("date", @.day, 0),
                                  !["time"] = parse_none(@)]
                          ELSE obj
              IN  IF obj1["time"].kind = "none"
                  THEN Resolved(obj1, to_datetime(obj1["date"]))
                  ELSE IF obj1["time"].kind = "str"
                          /\ obj1["time"].form = "time"
                  THEN Resolved(obj1,
                                Timestamp(24 * obj1["date"].day
                                            + obj1["time"].hour, FALSE))
                  ELSE Unresolved("ValueError", "unknown datetime string",
                                  obj1)
    ELSE IF "date" \in DOMAIN obj
    THEN Resolved(obj, to_datetime(obj["date"]))
    ELSE IF DayOfYearKeys \subseteq DOMAIN obj
    THEN LET base == 24 * obj["utcyear"].day
             d == obj["utcdoy"].day - 1
             hr == obj["utctod"].hour
         IN  Resolved(obj, Timestamp(base + 24 * d + hr, TRUE))
    ELSE Unresolved("ValueError", "Data is missing date/time info!", obj)

\* obj with obj[k] = v, k added when it is not a key yet.
Assign(obj, k, v) ==
    [key \in DOMAIN obj \cup {k} |-> IF key = k THEN v ELSE obj[key]]

\* MetaDataParser.parse_date_time: the outcome (the exception, or the
\* timestamp returned, with the timestamp d it was resolved from) and
\* rough_obj as the call leaves it.
parse_date_time(obj, in_timezone) ==
    IF in_timezone = <<>>
    THEN [exc |-> "ValueError", msg |-> "We did not recieve a valid in_timezone",
          resolved |-> <<>>, hours |-> 0, aware |-> FALSE, obj |-> obj]
    ELSE
        LET found == IF DT_KEY \in DOMAIN obj
                     THEN Resolved(obj, to_datetime(obj[DT_KEY]))
                     ELSE handle_separate_datetime(obj)
        IN  IF found.exc # "none"
            THEN [exc |-> found.exc, msg |-> found.msg, resolved |-> <<>>,
                  hours |-> 0, aware |-> FALSE, obj |-> found.obj]
            ELSE IF found.d.aware
            THEN [exc |-> "TypeError",
                  msg |-> "Cannot localize tz-aware Timestamp",
                  resolved |-> <<>>, hours |-> 0, aware |-> FALSE,
                  obj |-> found.obj]
            ELSE
                LET d == found.d.hours - UtcOffset(in_timezone[1])
                             + UtcOffset(OUT_TIMEZONE)
                    dated == Assign(found.obj, "date", DateObject(d \div 24))
                    timed == IF "time" \notin DOMAIN dated
                             THEN Assign(dated, "time", TimeObject(d % 24))
                             ELSE IF dated["time"].kind # "none"
                             THEN Assign(dated, "time", TimeObject(d % 24))
                             ELSE dated
                IN  IF timed["time"].kind # "none"
                    THEN [exc |-> "none", msg |-> "",
                          resolved |-> <<found.d.hours>>,
                          hours |-> 24 * timed["date"].day
                                        + timed["time"].hour,
                          aware |-> TRUE, obj |-> timed]
                    ELSE [exc |-> "none", msg |-> "",
                          resolved |-> <<found.d.hours>>,
                          hours |-> 24 * timed["date"].day,
                          aware |-> FALSE, obj |-> timed]

TimeValues ==
    [combined |-> {Str("date", 33, 0), Str("datetime", 33, 14)},
     date |-> {Str("date", 34, 0), Str("mmddyy", 35, 0)},
     time |-> {NoneValue, Str("time", 0, 9), Str("nan", 0, 0)},
     utcyear |-> {Str("year", 0, 0)},
     utcdoy |-> {Str("doy", 37, 0)},
     utctod |-> {Str("hhmmss", 0, 21)}]

TimeZones == {<<>>, <<"US/Mountain">>, <<"Asia/Tokyo">>}

\* A date in MMDDYY form comes with a time entry in the headers of the
\* model: what pd.to_datetime makes of six digits alone is not modelled.
TimeInit ==
    /\ \E combined \in Optional(TimeValues.combined),
          date \in Optional(TimeValues.date),
          time \in Optional(TimeValues.time),
          utcyear \in Optional(TimeValues.utcyear),
          utcdoy \in Optional(TimeValues.utcdoy),
          utctod \in Optional(TimeValues.utctod) :
            /\ (date # Absent /\ date.form = "mmddyy") => time # Absent
            /\ header_obj =
                Mapping([k \in {DT_KEY, "date", "time"} \cup DayOfYearKeys |->
                            CASE k = DT_KEY -> combined
                              [] k = "date" -> date
                              [] k = "time" -> time
                              [] k = "utcyear" -> utcyear
                              [] k = "utcdoy" -> utcdoy
                              [] k = "utctod" -> utctod])
    /\ rough_obj = header_obj
    /\ input_timezone \in TimeZones
    /\ location_cache = NoCache
    /\ location = NoLocation
    /\ date_time = NoDateTime
    /\ date_time_calls = 0
    /\ ident = NoIdent
    /\ record = NoMetadata

\* parser.parse_date_time()
ParseDateTime ==
    /\ date_time_calls < MaxParseCalls
    /\ LET got == parse_date_time(rough_obj, input_timezone)
       IN  /\ date_time' = [exc |-> got.exc, msg |-> got.msg,
                            resolved |-> got.resolved,
                            hours |-> got.hours, aware |-> got.aware]
           /\ rough_obj' = got.obj
    /\ date_time_calls' = date_time_calls + 1
    /\ UNCHANGED <<header_obj, input_timezone, location_cache, location,
                   ident, record>>
    /\ UNCHANGED parserOthers

TimeNext == ParseDateTime

(***************************************************************************)
(* Claims about the time resolver.  They are about the first call of       *)
(* parse_date_time on a parser, whose rough_obj is still header_obj.       *)
(***************************************************************************)
FirstCallMade == date_time_calls = 1

\* The local time the header states, by the path that resolves it.
StatedLocalTime(obj) ==
    IF DT_KEY \in DOMAIN obj
    THEN 24 * obj[DT_KEY].day + obj[DT_KEY].hour
    ELSE IF "time" \in DOMAIN obj /\ obj["time"].form = "time"
    THEN 24 * obj["date"].day + obj["time"].hour
    ELSE 24 * obj["date"].day

(***************************************************************************)
(* C7: without an input timezone parse_date_time fails for every metadata  *)
(* record, returns no timestamp and leaves the mapping unchanged; with an  *)
(* input timezone the resolved time is localized to it and converted to    *)
(* UTC.                                                                    *)
(***************************************************************************)
C7_TimezoneRequiredAndApplied ==
    FirstCallMade =>
        IF input_timezone = <<>>
        THEN /\ date_time.exc \notin {"none", "not_called"}
             /\ rough_obj = header_obj
        ELSE date_time.exc = "none" =>
                /\ date_time.aware
                /\ date_time.hours =
                      date_time.resolved[1] - UtcOffset(input_timezone[1])

\* The part of C7 the code does satisfy: no timezone, no timestamp.
NoTimezoneAlwaysFails ==
    (date_time_calls > 0 /\ input_timezone = <<>>) =>
        /\ date_time.exc = "ValueError"
        /\ date_time.msg = "We did not recieve a valid in_timezone"
        /\ rough_obj = header_obj

(***************************************************************************)
(* C8: a record with a combined date key holding only a date and a 'Time'  *)
(* key whose value is null resolves to midnight of that date in the input  *)
(* timezone, expressed in UTC (US/Mountain: 07:00 UTC), not midnight UTC.  *)
(***************************************************************************)
DateOnlyWithNullTime ==
    /\ DT_KEY \in DOMAIN header_obj
    /\ header_obj[DT_KEY].form = "date"
    /\ "time" \in DOMAIN header_obj
    /\ header_obj["time"] = NoneValue
    /\ input_timezone # <<>>

C8_DateWithNullTimeIsLocalMidnight ==
    (FirstCallMade /\ DateOnlyWithNullTime) =>
        /\ date_time.exc = "none"
        /\ date_time.aware
        /\ date_time.hours =
              24 * header_obj[DT_KEY].day - UtcOffset(input_timezone[1])

(***************************************************************************)
(* C9 (as the spec states it): time resolution succeeds only through (a) a *)
(* key containing both 'date' and 'time', (b) separate 'date' and 'time'   *)
(* keys, (c) the three day-of-year keys; every record matching none of     *)
(* them, such as one with a 'date' key but no 'time' key, fails with the   *)
(* time-resolution error.                                                  *)
(***************************************************************************)
MatchesOneOfThreePaths(obj) ==
    \/ DT_KEY \in DOMAIN obj
    \/ {"date", "time"} \subseteq DOMAIN obj
    \/ DayOfYearKeys \subseteq DOMAIN obj

PathOf(obj) ==
    IF DT_KEY \in DOMAIN obj THEN "combined"
    ELSE IF {"date", "time"} \subseteq DOMAIN obj THEN "separate"
    ELSE IF "date" \in DOMAIN obj THEN "date_alone"
    ELSE IF DayOfYearKeys \subseteq DOMAIN obj THEN "day_of_year"
    ELSE "none"

Letters == {"a", "b", "c", "d", "x"}

\* len(line.split(','))
FieldCount(line) == Cardinality({i \in 1..Len(line) : line[i] = ","}) + 1

\* StringManager.get_alpha_ratio: the fraction of alphabetic characters.
get_alpha_ratio(line) ==
    [n |-> Cardinality({i \in 1..Len(line) : line[i] \in Letters}),
     d |-> Len(line)]

\* StringManager.line_is_header: the line starts with the marker, has at
\* least the expected number of fields and is more alphabetic than the
\* previous line.  header_indicator is <<>> (None) or <<marker>>.
line_is_header(line, expected_columns, header_indicator, previous) ==
    /\ header_indicator # <<>>
    /\ line[1] = header_indicator[1]
    /\ FieldCount(line) >= expected_columns
    /\ get_alpha_ratio(line).n * previous.d
            > previous.n * get_alpha_ratio(line).d

RECURSIVE iterative_header_pos_search_upto(_, _, _, _)
\* header_pos after the first k lines have been looked at.
iterative_header_pos_search_upto(lines_, n_columns, header_indicator, k) ==
    IF k = 0 THEN 0
    ELSE LET i == k - 1
             before == iterative_header_pos_search_upto(
                            lines_, n_columns, header_indicator, k - 1)
             previous == IF i = 0 THEN get_alpha_ratio(lines_[1])
                         ELSE get_alpha_ratio(lines_[i])
         IN  IF line_is_header(lines_[i + 1], n_columns, header_indicator,
                               previous)
             THEN i
             ELSE before

\* CSVMetaDataParser._iterative_header_pos_search
iterative_header_pos_search(lines_, n_columns, header_indicator) ==
    iterative_header_pos_search_upto(lines_, n_columns, header_indicator,
                                     Len(lines_))

NotSearched == [exc |-> "not_called", header_pos |-> 0,
                header_indicator |-> <<>>]

\* CSVMetaDataParser._find_header_position
find_header_position(lines_, allow_split) ==
    LET n_columns == FieldCount(lines_[Len(lines_)])
        header_indicator == IF lines_[1][1] = "#" THEN <<"#">> ELSE <<>>
    IN  IF allow_split
        THEN IF header_indicator = <<>>
             THEN [exc |-> "RuntimeError", header_pos |-> 0,
                   header_indicator |-> header_indicator]
             ELSE LET header_indices ==
                        {i \in 0..(Len(lines_) - 1) :
                            lines_[i + 1][1] = header_indicator[1]}
                  IN  [exc |-> "none",
                       header_pos |-> CHOOSE m \in header_indices :
                                        \A i \in header_indices : i <= m,
                       header_indicator |-> header_indicator]
        ELSE [exc |-> "none",
              header_pos |-> iterative_header_pos_search(
                                lines_, n_columns, header_indicator),
              header_indicator |-> header_indicator]

\* The lines files are made of: metadata lines, column lines, data lines.
FileLines ==
    { <<"#", "x">>,
      <<"#", "a", ",", "1">>,
      <<"#", "1", ",", "2">>,
      <<"#", "a", "b", ",", "c", ",", "d">>,
      <<"1", ",", "2", ",", "3">>,
      <<"1", ",", "2">>,
      <<"a", "b", ",", "c">> }

HeaderInit ==
    /\ \E n \in 1..MaxLines : lines \in [1..n -> FileLines]
    /\ allow_split_header_lines \in BOOLEAN
    /\ header = NotSearched

HeaderIdle ==
    /\ lines = <<>>
    /\ allow_split_header_lines = FALSE
    /\ header = NotSearched

\* parser._find_header_position()
FindHeaderPosition ==
    /\ header.exc = "not_called"
    /\ header' = find_header_position(lines, allow_split_header_lines)
    /\ UNCHANGED <<lines, allow_split_header_lines>>
    /\ UNCHANGED headerOthers

HeaderNext == FindHeaderPosition

(***************************************************************************)
(* C10: for every file whose last line has N comma-separated fields, the   *)
(* line at the header boundary found in iterative mode has at least N      *)
(* fields, also when no line qualifies as a header line and the search     *)
(* returns its initial position 0.                                         *)
(***************************************************************************)
C10_BoundaryLineHasEnoughFields ==
    (header.exc = "none" /\ ~allow_split_header_lines) =>
        FieldCount(lines[header.header_pos + 1])
            >= FieldCount(lines[Len(lines)])

\* Some line of the file qualifies as a header line.
SomeLineQualifies ==
    \E i \in 1..Len(lines) :
        line_is_header(lines[i], FieldCount(lines[Len(lines)]),
                       IF lines[1][1] = "#" THEN <<"#">> ELSE <<>>,
                       get_alpha_ratio(lines[IF i = 1 THEN 1 ELSE i - 1]))

\* The part of C10 the code does satisfy: the files in which some line
\* qualifies.
BoundaryLineWhenSomeLineQualifies ==
    (header.exc = "none" /\ ~allow_split_header_lines
        /\ SomeLineQualifies) =>
        FieldCount(lines[header.header_pos + 1])
            >= FieldCount(lines[Len(lines)])

(***************************************************************************)
(* C11: in split-header-lines mode _find_header_position returns the       *)
(* greatest index of a line starting with the marker whenever some line    *)
(* of the file starts with the marker, and fails with the header-format    *)
(* error exactly when no line of the file starts with it.                  *)
(***************************************************************************)
MarkedIndices == {i \in 0..(Len(lines) - 1) : lines[i + 1][1] = "#"}

C11_SplitModeFailsOnlyWithoutAnyMarker ==
    (allow_split_header_lines /\ header.exc # "not_called") =>
        IF MarkedIndices # {}
        THEN /\ header.exc = "none"
             /\ header.header_pos \in MarkedIndices
             /\ \A i \in MarkedIndices : i <= header.header_pos
        ELSE header.exc = "RuntimeError"

\* The part of C11 the code does satisfy: the files whose first line starts
\* with the marker.
SplitModeWhenFirstLineIsMarked ==
    (allow_split_header_lines /\ header.exc # "not_called"
        /\ lines[1][1] = "#") =>
        /\ header.exc = "none"
        /\ header.header_pos \in MarkedIndices
        /\ \A i \in MarkedIndices : i <= header.header_pos

(***************************************************************************)
(* C12: the header marker is the first character of the first line when    *)
(* that character is '#'; for every file whose first line starts with any  *)
(* other character, header detection fails with the header-format error    *)
(* in both boundary modes and never goes on with an undefined marker.      *)
(***************************************************************************)
C12_UnmarkedFirstLineFailsInBothModes ==
    header.exc # "not_called" =>
        IF lines[1][1] = "#"
        THEN header.exc = "none" /\ header.header_indicator = <<"#">>
        ELSE header.exc = "RuntimeError"

\* The part of C12 the code does satisfy: a marked first line gives the
\* marker, and an unmarked one fails in split mode.
MarkerOfMarkedFirstLine ==
    header.exc # "not_called" =>
        /\ lines[1][1] = "#" =>
              (header.exc = "none" /\ header.header_indicator = <<"#">>)
        /\ (lines[1][1] # "#" /\ allow_split_header_lines) =>
              header.exc = "RuntimeError"

(***************************************************************************)
(* Metadata extractor (io/readers.py, CSVMetaDataParser._preparse_meta).   *)
(*                                                                         *)
(* A header line is a tuple of one-character strings, its marker already   *)
(* removed by find_header_info.  The result maps each key (a tuple of      *)
(* characters) to a string value or to None.                               *)
(***************************************************************************)
RECURSIVE SplitOn(_, _)
\* str.split(sep) for a one-character separator
SplitOn(s, sep) ==
    IF \A i \in 1..Len(s) : s[i] # sep THEN <<s>>
    ELSE LET first == CHOOSE i \in 1..Len(s) :
                        s[i] = sep /\ \A j \in 1..(i - 1) : s[j] # sep
         IN  <<SubSeq(s, 1, first - 1)>>
                \o SplitOn(SubSeq(s, first + 1, Len(s)), sep)

RECURSIVE JoinWith(_, _)
\* glue.join(tokens)
JoinWith(tokens, glue) ==
    IF tokens = <<>> THEN <<>>
    ELSE IF Len(tokens) = 1 THEN tokens[1]
    ELSE tokens[1] \o glue \o JoinWith(Tail(tokens), glue)

\* sub in s
Contains(s, sub) ==
    \E i \in 1..(Len(s) - Len(sub) + 1) :
        SubSeq(s, i, i + Len(sub) - 1) = sub

LowerOf(ch) ==
    CASE ch = "D" -> "d"
      [] ch = "P" -> "p"
      [] ch = "S" -> "s"
      [] ch = "T" -> "t"
      [] OTHER -> ch

\* StringManager.standardize_key: lower case, surrounding whitespace
\* stripped.
standardize_key(k) ==
    LET stripped == Strip(k, " ")
    IN  [i \in 1..Len(stripped) |-> LowerOf(stripped[i])]

\* StringManager.clean_str: surrounding whitespace stripped.
clean_str(v) == Strip(v, " ")

\* str.replace('"', '')
RemoveQuotes(s) == SelectSeq(s, LAMBDA ch : ch # "\"")

RECURSIVE CollapseDoubleSpaces(_)
\* str.replace('  ', ' ')
CollapseDoubleSpaces(s) ==
    IF Len(s) < 2 THEN s
    ELSE IF s[1] = " " /\ s[2] = " "
    THEN <<" ">> \o CollapseDoubleSpaces(SubSeq(s, 3, Len(s)))
    ELSE <<s[1]>> \o CollapseDoubleSpaces(Tail(s))

header_sep == ","

\* meta_entry keeping only the first token after the key.
meta_entry_second_token_only(ln) ==
    LET d == SplitOn(ln, header_sep)
        k == standardize_key(d[1])
        rest == IF Len(d) > 1 THEN <<d[2]>> ELSE <<>>
        value == IF Contains(k, <<"t", "i", "m", "e">>)
                    \/ Contains(k, <<"d", "a", "t", "e">>)
                 THEN Strip(JoinWith(rest, <<":">>), " ")
                 ELSE clean_str(JoinWith(rest, <<",", " ">>))
    IN  IF k # <<>> /\ value # <<>>
        THEN [key |-> k, kind |-> "str",
              chars |-> CollapseDoubleSpaces(
                            RemoveQuotes(Strip(value, " ")))]
        ELSE IF k # <<>>
        THEN [key |-> k, kind |-> "none", chars |-> <<>>]
        ELSE [key |-> <<>>, kind |-> "skip", chars |-> <<>>]

\* One round of the loop of _preparse_meta: the entry a line adds.
\* key <<>> with kind "skip" stands for a line that adds nothing.
meta_entry(ln) ==
    LET d == SplitOn(ln, header_sep)
        k == standardize_key(d[1])
        value == IF Contains(k, <<"t", "i", "m", "e">>)
                    \/ Contains(k, <<"d", "a", "t", "e">>)
                 THEN Strip(JoinWith(Tail(d), <<":">>), " ")
                 ELSE clean_str(JoinWith(Tail(d), <<",", " ">>))
    IN  IF k # <<>> /\ value # <<>>
        THEN [key |-> k, kind |-> "str",
              chars |-> CollapseDoubleSpaces(
                            RemoveQuotes(Strip(value, " ")))]
        ELSE IF k # <<>>
        THEN [key |-> k, kind |-> "none", chars |-> <<>>]
        ELSE [key |-> <<>>, kind |-> "skip", chars |-> <<>>]

\* CSVMetaDataParser._preparse_meta: a later line with the same key
\* replaces the entry of an earlier one.
preparse_meta(meta_lines_) ==
    LET entries == [i \in 1..Len(meta_lines_) |-> meta_entry(meta_lines_[i])]
        keys == {entries[i].key : i \in {j \in 1..Len(entries) :
                                            entries[j].kind # "skip"}}
        last(k) == CHOOSE i \in 1..Len(entries) :
                      /\ entries[i].kind # "skip"
                      /\ entries[i].key = k
                      /\ \A j \in (i + 1)..Len(entries) :
                            entries[j].kind = "skip" \/ entries[j].key # k
    IN  [k \in keys |-> [kind |-> entries[last(k)].kind,
                         chars |-> entries[last(k)].chars]]

\* The keys and value tokens header lines are made of.
MetaKeys ==
    { <<"S", "i">>, <<"D", "a", "t", "e">>, <<" ", "t", "i", "m", "e">>,
      <<>> }

MetaTokens == { <<>>, <<"7">>, <<" ", "\"", "a">> }

MetaLines ==
    { JoinWith(<<k>> \o v, <<header_sep>>) :
        k \in MetaKeys,
        v \in UNION {[1..n -> MetaTokens] : n \in 0..MaxTokens} }

\* Lines that hold a key and nothing after it.
KeyOnlyLines == { k : k \in MetaKeys }

NotParsed == [done |-> FALSE, data |-> <<>>]

\* The header lines of a file: two lines with up to MaxTokens tokens after
\* the key, then lines that hold only a key.
MetaInit ==
    /\ \E n \in 1..MaxMetaLines :
        \E first \in [1..(IF n < 2 THEN n ELSE 2) -> MetaLines],
           rest \in [1..(IF n < 2 THEN 0 ELSE n - 2) -> KeyOnlyLines] :
            meta_lines = first \o rest
    /\ meta = NotParsed

MetaIdle ==
    /\ meta_lines = <<>>
    /\ meta = NotParsed

\* self._rough_obj = self._preparse_meta(meta_lines)
PreparseMeta ==
    /\ ~meta.done
    /\ meta' = [done |-> TRUE, data |-> preparse_meta(meta_lines)]
    /\ UNCHANGED meta_lines
    /\ UNCHANGED metaOthers

MetaNext == PreparseMeta

(***************************************************************************)
(* Claims about the metadata extractor.                                    *)
(***************************************************************************)
\* The i-th header line split on the separator, and its standardized key.
TokensOf(i) == SplitOn(meta_lines[i], header_sep)

KeyOf(i) == standardize_key(TokensOf(i)[1])

IsDateOrTimeKey(k) ==
    Contains(k, <<"d", "a", "t", "e">>) \/ Contains(k, <<"t", "i", "m", "e">>)

\* No later line has the key of line i.
LastWithItsKey(i) ==
    \A j \in (i + 1)..Len(meta_lines) : KeyOf(j) # KeyOf(i)

\* What a string says, apart from blanks, quotes and joining punctuation.
Content(s) == SelectSeq(s, LAMBDA ch : ch \notin {" ", ",", ":", "\""})

CountOf(s, ch) == Cardinality({i \in 1..Len(s) : s[i] = ch})

(***************************************************************************)
(* C13: for every header line the metadata key is the standardized first   *)
(* separator-delimited token and the value is built from all remaining     *)
(* tokens, none dropped: rejoined with ':' when the key contains 'date'    *)
(* or 'time', with ', ' (then cleaned) otherwise; a line whose key is      *)
(* empty adds no entry.  (Of two lines with the same key the later one     *)
(* owns the entry.)                                                        *)
(***************************************************************************)
C13_ValueBuiltFromAllRemainingTokens ==
    meta.done =>
        /\ DOMAIN meta.data =
                {KeyOf(i) : i \in 1..Len(meta_lines)} \ {<<>>}
        /\ \A i \in 1..Len(meta_lines) :
            (KeyOf(i) # <<>> /\ LastWithItsKey(i)) =>
                LET e == meta.data[KeyOf(i)]
                    rest == Tail(TokensOf(i))
                    glue == IF IsDateOrTimeKey(KeyOf(i)) THEN ":" ELSE ","
                    other == IF IsDateOrTimeKey(KeyOf(i)) THEN "," ELSE ":"
                IN  /\ Content(e.chars) = Content(JoinWith(rest, <<>>))
                    /\ e.kind = "str" =>
                          /\ CountOf(e.chars, glue) = Len(rest) - 1
                          /\ CountOf(e.chars, other) = 0

\* A date/time line and another line, each with two tokens that say
\* something, were parsed, next to nothing else.
C13_Witness ==
    /\ meta.done
    /\ Len(meta_lines) = 2
    /\ \E i \in 1..2 :
        /\ IsDateOrTimeKey(KeyOf(i))
        /\ KeyOf(3 - i) # <<>>
        /\ ~IsDateOrTimeKey(KeyOf(3 - i))
    /\ \A i \in 1..2 :
        /\ Len(TokensOf(i)) = 3
        /\ Content(TokensOf(i)[2]) # <<>>
        /\ Content(TokensOf(i)[3]) # <<>>

(***************************************************************************)
(* C14: every value of the metadata produced from the header is typed by   *)
(* the coercion order: a numeric-looking string becomes a number, an empty *)
(* value becomes null, and only the remaining values stay strings.         *)
(***************************************************************************)
Digits == {"0", "1", "2", "3", "4", "5", "6", "7", "8", "9"}

NumericLooking(s) == s # <<>> /\ \A i \in 1..Len(s) : s[i] \in Digits

C14_ValuesAreTypedByCoercionOrder ==
    meta.done =>
        \A k \in DOMAIN meta.data :
            /\ meta.data[k].kind = "str" =>
                  ~NumericLooking(meta.data[k].chars)
            /\ meta.data[k].kind = "none" \/ meta.data[k].chars # <<>>

\* The part of C14 the code does satisfy: a key followed by nothing, or by
\* one blank token, is null.
EmptyValuesBecomeNull ==
    meta.done =>
        \A i \in 1..Len(meta_lines) :
            (KeyOf(i) # <<>> /\ LastWithItsKey(i)
                /\ Len(TokensOf(i)) <= 2
                /\ Strip(JoinWith(Tail(TokensOf(i)), <<>>), " ") = <<>>) =>
                meta.data[KeyOf(i)].kind = "none"

(***************************************************************************)
(* Column mapper (io/readers.py, CSVMetaDataParser.parse_units and         *)
(* _parse_columns).  The line of column labels is lines[header_pos], which *)
(* the line classifier above finds; here it is given.                      *)
(***************************************************************************)
\* MetaDataParser.UNITS, in its order
UNITS ==
    << <<"m">>, <<"c", "m">>, <<"m", "m">>, <<"k", "m">>, <<"k", "g">>,
       <<"k", "g", "/", "m", "3">>, <<"%">>, <<"d", "e", "g", " ", "C">>,
       <<"d", "e", "g", " ", "F">>, <<"g", "/", "c", "m">> >>

\* StringManager.strip_encapsulated: the text without what stands between
\* the two characters of `pair`, the pair itself included.
strip_encapsulated(str_line, pair) ==
    LET inside(i) ==
            \E a \in 1..i, b \in i..Len(str_line) :
                /\ str_line[a] = pair[1]
                /\ str_line[b] = pair[2]
                /\ \A j \in a..(b - 1) : str_line[j] # pair[2]
    IN  SelectSeq([i \in 1..Len(str_line) |->
                        IF inside(i) THEN "" ELSE str_line[i]],
                  LAMBDA ch : ch # "")

\* ProfileVariables.from_mapping on a standardized label: the alias table
\* (top -> depth here), other labels unchanged.
from_mapping_label(c) ==
    IF c = <<"t", "o", "p">> THEN <<"d", "e", "p", "t", "h">> ELSE c

\* CSVMetaDataParser._parse_columns
parse_columns(str_line) ==
    LET stripped == strip_encapsulated(
                        strip_encapsulated(str_line, <<"(", ")">>),
                        <<"[", "]">>)
        raw_cols == SplitOn(Strip(stripped, "#"), ",")
    IN  [i \in 1..Len(raw_cols) |->
            from_mapping_label(standardize_key(raw_cols[i]))]

\* The last unit of UNITS that occurs in the raw label; <<>> when none does.
last_unit_in(raw) ==
    LET hits == {u \in 1..Len(UNITS) : Contains(raw, UNITS[u])}
    IN  IF hits = {} THEN <<>>
        ELSE <<UNITS[CHOOSE u \in hits : \A v \in hits : v <= u]>>

\* CSVMetaDataParser.parse_units, from the line of column labels on: the
\* mapping clean column name -> unit.
parse_units(line) ==
    LET raw_cols == SplitOn(Strip(line, "#"), ",")
        clean_cols == parse_columns(line)
        n == IF Len(raw_cols) < Len(clean_cols) THEN Len(raw_cols)
             ELSE Len(clean_cols)
        written == {i \in 1..n :
                        /\ ~Contains(clean_cols[i],
                                     <<"c", "o", "m", "m", "e", "n", "t">>)
                        /\ last_unit_in(raw_cols[i]) # <<>>}
        last(c) == CHOOSE i \in written :
                        /\ clean_cols[i] = c
                        /\ \A j \in written : clean_cols[j] = c => j <= i
    IN  [c \in {clean_cols[i] : i \in written} |->
            last_unit_in(raw_cols[last(c)])[1]]

\* The column labels lines are made of.
ColumnLabels ==
    { <<"t", "o", "p", " ", "(", "c", "m", ")">>,
      <<"d", " ", "(", "k", "g", "/", "m", "3", ")">>,
      <<"P", "m", "[", "]">>,
      <<"h", "h", "[", "]">>,
      <<"T", " ", "(", "d", "e", "g", " ", "C", ")">>,
      <<"w", " ", "(", "%", ")">>,
      <<"c", "o", "m", "m", "e", "n", "t", "s">>,
      <<"s">> }

NoUnits == [done |-> FALSE, data |-> <<>>]

UnitInit ==
    /\ \E n \in 1..MaxCols : \E labels \in [1..n -> ColumnLabels] :
            column_line = <<"#">> \o JoinWith(labels, <<",">>)
    /\ units = NoUnits

UnitIdle ==
    /\ column_line = <<>>
    /\ units = NoUnits

\* parser.parse_units()
ParseUnits ==
    /\ ~units.done
    /\ units' = [done |-> TRUE, data |-> parse_units(column_line)]
    /\ UNCHANGED column_line
    /\ UNCHANGED unitOthers

UnitNext == ParseUnits

(***************************************************************************)
(* C15: for every column label the unit reported for the column is the     *)
(* content of its '(...)' or '[...]' decoration, and a label with no       *)
(* decoration or an empty one gets the explicit empty-unit marker; the     *)
(* unit is never taken from letters of the column name itself.             *)
(***************************************************************************)
\* The raw labels of the line and the columns they stand for.
RawLabels == SplitOn(Strip(column_line, "#"), ",")

CleanLabels == parse_columns(column_line)

\* What stands between the brackets of a label; <<>> when nothing does.
Decoration(raw) ==
    LET open == {i \in 1..Len(raw) : raw[i] \in {"(", "["}}
    IN  IF open = {} THEN <<>>
        ELSE LET a == CHOOSE i \in open : \A j \in open : i <= j
             IN  SubSeq(raw, a + 1, Len(raw) - 1)

EmptyUnit == <<"[", "]">>

C15_UnitIsTheDecoration ==
    units.done =>
        \A i \in 1..Len(RawLabels) :
            (\A j \in (i + 1)..Len(RawLabels) :
                    CleanLabels[j] # CleanLabels[i]) =>
                /\ CleanLabels[i] \in DOMAIN units.data
                /\ units.data[CleanLabels[i]] =
                        IF Decoration(RawLabels[i]) # <<>>
                        THEN Decoration(RawLabels[i])
                        ELSE EmptyUnit

\* The part of C15 the code does satisfy: every unit it reports is a member
\* of UNITS that occurs somewhere in the raw label of a column of that name.
ReportedUnitOccursInLabel ==
    units.done =>
        \A c \in DOMAIN units.data :
            \E i \in 1..Len(RawLabels) :
                /\ CleanLabels[i] = c
                /\ Contains(RawLabels[i], units.data[c])
                /\ \E u \in 1..Len(UNITS) : UNITS[u] = units.data[c]

(***************************************************************************)
(* Record assembly (io/readers.py, MetaDataParser.parse and parse_id).     *)
(* parse is modelled from the point where _preparse_meta has filled        *)
(* rough_obj; the steps before it are the line classifier and the          *)
(* metadata extractor above.  parse_units and parse_flags, the last two    *)
(* steps, read the file again and raise nothing for a file whose header    *)
(* was found; the record fields they fill are left out.                    *)
(***************************************************************************)
ID_NAMES == {"pitid", "pit_id"}

SITE_ID_NAMES == {"site"}

SITE_NAME_NAMES == {"location"}

\* MetaDataParser.parse_id
parse_id(obj) ==
    IF DOMAIN obj \cap ID_NAMES # {}
    THEN [exc |-> "none",
          value |-> obj[CHOOSE k \in DOMAIN obj \cap ID_NAMES : TRUE]]
    ELSE [exc |-> "RuntimeError", value |-> NoValue]

ParseFailed(e, step, obj, cache) ==
    [exc |-> e, step |-> step, id |-> NoValue, date_time |-> NoDateTime,
     latitude |-> NoCoord, longitude |-> NoCoord, obj |-> obj,
     cache |-> cache]

\* The ProfileMetaData(...) call of parse: its arguments (the outcomes of
\* parse_id, parse_date_time, _parse_location and parse_utm_epsg) are
\* evaluated in order and the first exception ends the call.
assemble(id, dt, loc, epsg, cache) ==
    IF id.exc # "none"
    THEN ParseFailed(id.exc, "parse_id", dt.before, cache)
    ELSE IF dt.exc # "none"
    THEN ParseFailed(dt.exc, "parse_date_time", dt.obj, cache)
    ELSE IF loc.exc # "none"
    THEN ParseFailed(loc.exc, "parse_latitude", dt.obj, cache)
    ELSE IF epsg.exc # "none"
    THEN ParseFailed(epsg.exc, "parse_utm_epsg", dt.obj, loc)
    ELSE IF DOMAIN dt.obj \cap SITE_ID_NAMES = {}
    THEN ParseFailed("RuntimeError", "parse_site_id", dt.obj, loc)
    ELSE IF DOMAIN dt.obj \cap SITE_NAME_NAMES = {}
    THEN ParseFailed("RuntimeError", "parse_site_name", dt.obj, loc)
    ELSE [exc |-> "none", step |-> "", id |-> id.value,
          date_time |-> [exc |-> dt.exc, msg |-> dt.msg,
                         resolved |-> dt.resolved, hours |-> dt.hours,
                         aware |-> dt.aware],
          latitude |-> loc.lat, longitude |-> loc.lon,
          obj |-> dt.obj, cache |-> loc]

\* parse_date_time, keeping the mapping it was given next to its outcome.
date_time_step(obj, in_timezone) ==
    [before |-> obj] @@ parse_date_time(obj, in_timezone)

\* lat_lon_easting_northing on the mapping parse_date_time left.
location_step(dt, cache) ==
    IF cache.exc = "unset" THEN parse_location(dt.obj) ELSE cache

\* MetaDataParser.parse, from the ProfileMetaData(...) call on.
parse(obj, in_timezone, cache) ==
    LET dt == date_time_step(obj, in_timezone)
    IN  assemble(parse_id(obj), dt, location_step(dt, cache),
                 parse_utm_epsg(dt.obj), cache)

IdText == Chars(<<"C", "O", "G", "M">>)

\* The headers parse is given: each entry absent or present, the identifier
\* also present with an empty value.
RecordInit ==
    /\ \E id_key \in ID_NAMES :
        \E id \in {Absent, NoValue, IdText},
           combined \in Optional({Str("datetime", 33, 14)}),
           lat \in Optional({Text(39)}),
           lon \in Optional({Text(-108)}),
           utm \in Optional({Text(329131)}),
           utm_zone \in Optional({Chars(<<"1", "3", "N">>)}),
           site \in Optional({Chars(<<"G", "M", "L">>)}),
           name \in Optional({Chars(<<"M", "e", "s", "a">>)}) :
            header_obj =
                Mapping([k \in {id_key, DT_KEY, "latitude", "longitude",
                                "easting", "northing", "utm_zone", "site",
                                "location"} |->
                            CASE k = id_key -> id
                              [] k = DT_KEY -> combined
                              [] k = "latitude" -> lat
                              [] k = "longitude" -> lon
                              [] k = "easting" -> utm
                              [] k = "northing" -> utm
                              [] k = "utm_zone" -> utm_zone
                              [] k = "site" -> site
                              [] k = "location" -> name])
    /\ rough_obj = header_obj
    /\ input_timezone \in {<<>>, <<"US/Mountain">>}
    /\ location_cache = NoCache
    /\ location = NoLocation
    /\ date_time = NoDateTime
    /\ date_time_calls = 0
    /\ ident = NoIdent
    /\ record = NoMetadata

\* parser.parse_id()
ParseId ==
    /\ ident.exc = "not_called"
    /\ record.exc = "not_called"
    /\ ident' = parse_id(rough_obj)
    /\ UNCHANGED <<header_obj, rough_obj, input_timezone, location_cache,
                   location, date_time, date_time_calls, record>>
    /\ UNCHANGED parserOthers

\* parser.parse()
Parse ==
    /\ record.exc = "not_called"
    /\ LET got == parse(rough_obj, input_timezone, location_cache)
       IN  /\ record' = [exc |-> got.exc, step |-> got.step,
                           id |-> got.id, date_time |-> got.date_time,
                           latitude |-> got.latitude,
                           longitude |-> got.longitude]
           /\ rough_obj' = got.obj
           /\ location_cache' = got.cache
    /\ UNCHANGED <<header_obj, input_timezone, location, date_time,
                   date_time_calls, ident>>
    /\ UNCHANGED parserOthers

RecordNext ==
    \/ ParseId
    \/ Parse

ReturnedRecordHasTimeAndPlace ==
    record.exc = "none" =>
        /\ record.date_time.exc = "none"
        /\ record.latitude.kind # "none"
        /\ record.longitude.kind # "none"

(***************************************************************************)
(* C17: when the metadata has no identifier key at all, identifier         *)
(* resolution does not fail: it returns a synthesized 8-character          *)
(* alphanumeric id.                                                        *)
(***************************************************************************)
C17_AbsentIdentifierIsSynthesized ==
    (ident.exc # "not_called" /\ DOMAIN header_obj \cap ID_NAMES = {}) =>
        /\ ident.exc = "none"
        /\ ident.value.kind = "str"
        /\ Len(ident.value.chars) = 8

\* What the code does instead: without an identifier key parse_id raises.
AbsentIdentifierRaises ==
    (ident.exc # "not_called" /\ DOMAIN header_obj \cap ID_NAMES = {}) =>
        ident.exc = "RuntimeError"

(***************************************************************************)
(* C18: for every table, layered or not, in which every row mean of the    *)
(* requested variable is null, ProfileData.mean returns the not-a-number   *)
(* value and raises no error.                                              *)
(***************************************************************************)
EveryRowMeanIsNull ==
    \A i \in 1..Len(df.rows) :
        RowMean(df.rows[i], sample_columns).kind = "nan"

C18_MeanOfNullsIsNaN ==
    (stat.name = "mean" /\ EveryRowMeanIsNull) =>
        (stat.exc = "none" /\ stat.value.kind = "nan")

\* The mean of a layered table with rows, all of them without a value, was
\* read.
C18_Witness ==
    /\ stat.name = "mean"
    /\ has_layers
    /\ Len(df.rows) = 2
    /\ EveryRowMeanIsNull
    /\ stat.value.kind = "nan"

(***************************************************************************)
(* C19: after construction the table owned by a ProfileData never          *)
(* changes: after any sequence of calls to mean, sum, total_depth and      *)
(* get_profile, the columns and values of ProfileData.df are those it had  *)
(* right after construction; get_profile returns a new table holding the   *)
(* non-measurement columns and the per-row mean.                           *)
(***************************************************************************)
AsConstructed == ProfileData(input_df, variable, TheMetadata).df

NonMeasureColumns == {DEPTH, BOTTOM_DEPTH, "datetime", "geometry"}

C19_TableNeverChangesAfterConstruction ==
    built = "yes" =>
        /\ df.cols = AsConstructed.cols
        /\ df.rows = AsConstructed.rows
        /\ stat.name = "get_profile" =>
              /\ Range(stat.value.cols) =
                    (Range(AsConstructed.cols) \cap NonMeasureColumns)
                        \cup {variable}
              /\ \A i \in 1..Len(df.rows) :
                    stat.value.rows[i][variable] =
                        MeanCell(df.rows[i], sample_columns)

\* The part of C19 the code does satisfy: the table only ever gains the
\* column "mean", and get_profile returns what the claim says.
TableOnlyGainsTheMeanColumn ==
    built = "yes" =>
        /\ Range(df.cols) \ {"mean"} = Range(AsConstructed.cols)
        /\ \A i \in 1..Len(df.rows) : \A c \in Range(AsConstructed.cols) :
              df.rows[i][c] = AsConstructed.rows[i][c]
        /\ stat.name = "get_profile" =>
              /\ Range(stat.value.cols) =
                    (Range(AsConstructed.cols) \cap NonMeasureColumns)
                        \cup {variable}
              /\ \A i \in 1..Len(df.rows) :
                    stat.value.rows[i][variable] =
                        MeanCell(df.rows[i], sample_columns)

(***************************************************************************)
(* Data cleaner (io/readers.py, DataParser._clean_df).                     *)
(*                                                                         *)
(* A table is [force, bottom, depth, bottom_depth]: whether it has a       *)
(* 'force' and a 'bottom_depth' column, and the two columns as series.     *)
(***************************************************************************)
\* comments: whether the table returned has a 'comments' column.
NotCleaned ==
    [exc |-> "not_called", depth |-> <<>>, bottom_depth |-> <<>>,
     comments |-> FALSE]

\* DataParser._clean_df.  With a 'force' column the depth is divided by 10
\* in place and the next statement uses two undefined names, Path and
\* profile_filename: the call ends with NameError.
clean_df(table) ==
    IF table.force
    THEN [exc |-> "NameError", depth |-> <<>>, bottom_depth |-> <<>>,
          comments |-> FALSE]
    ELSE IF table.depth = <<>>
    THEN [exc |-> "none", depth |-> table.depth,
          bottom_depth |-> table.bottom_depth, comments |-> FALSE]
    ELSE LET new_depth ==
                standardize_depth(table.depth, "snow_height", FALSE).value
             delta == [i \in 1..Len(new_depth) |->
                            table.depth[i] - new_depth[i]]
         IN  [exc |-> "none", depth |-> new_depth,
              bottom_depth |->
                  IF table.bottom
                  THEN [i \in 1..Len(new_depth) |->
                            table.bottom_depth[i] - delta[i]]
                  ELSE table.bottom_depth,
              comments |-> FALSE]

CleanInit ==
    /\ \E n \in 0..MaxCleanRows :
        \E force \in BOOLEAN, bottom \in BOOLEAN,
           depth \in [1..n -> -MaxDepth..MaxDepth],
           bottom_depth \in [1..n -> -MaxDepth..MaxDepth] :
            /\ ~bottom => \A i \in 1..n : bottom_depth[i] = 0
            /\ raw_df = [force |-> force, bottom |-> bottom, depth |-> depth,
                         bottom_depth |-> IF bottom THEN bottom_depth
                                          ELSE <<>>]
    /\ cleaned = NotCleaned

CleanIdle ==
    /\ raw_df = [force |-> FALSE, bottom |-> FALSE, depth |-> <<>>,
                 bottom_depth |-> <<>>]
    /\ cleaned = NotCleaned

\* self._df = self._clean_df(raw_df)
CleanDf ==
    /\ cleaned.exc = "not_called"
    /\ cleaned' = clean_df(raw_df)
    /\ UNCHANGED raw_df
    /\ UNCHANGED cleanOthers

CleanNext == CleanDf

(***************************************************************************)
(* C20: for every non-empty table with a bottom_depth column, _clean_df    *)
(* shifts bottom_depth in each row by the same delta it applied to depth   *)
(* in that row, so the layer thickness depth - bottom_depth of every row   *)
(* is the same after cleaning as before.                                   *)
(***************************************************************************)
C20_CleaningPreservesLayerThickness ==
    (cleaned.exc # "not_called" /\ raw_df.bottom /\ raw_df.depth # <<>>) =>
        /\ cleaned.exc = "none"
        /\ \A i \in 1..Len(raw_df.depth) :
            /\ cleaned.bottom_depth[i] - raw_df.bottom_depth[i]
                    = cleaned.depth[i] - raw_df.depth[i]
            /\ cleaned.depth[i] - cleaned.bottom_depth[i]
                    = raw_df.depth[i] - raw_df.bottom_depth[i]

\* The part of C20 the code does satisfy: the tables without a 'force'
\* column.
CleaningPreservesThicknessWithoutForce ==
    (cleaned.exc # "not_called" /\ raw_df.bottom /\ raw_df.depth # <<>>
        /\ ~raw_df.force) =>
        /\ cleaned.exc = "none"
        /\ \A i \in 1..Len(raw_df.depth) :
            /\ cleaned.bottom_depth[i] - raw_df.bottom_depth[i]
                    = cleaned.depth[i] - raw_df.depth[i]
            /\ cleaned.depth[i] - cleaned.bottom_depth[i]
                    = raw_df.depth[i] - raw_df.bottom_depth[i]

\* A table in surface datum, which the cleaner does shift, was cleaned.
ShiftedTableWasCleaned ==
    /\ cleaned.exc = "none"
    /\ raw_df.bottom
    /\ Len(raw_df.depth) = 2
    /\ cleaned.depth # raw_df.depth

(***************************************************************************)
(* C23: a metadata record holding only the day-of-year keys (utcyear,      *)
(* utcdoy, utctod), parsed with an input timezone, resolves to the UTC     *)
(* instant January 1 of the year + (day-of-year - 1) days + the time of    *)
(* day, not shifted by the input timezone.                                 *)
(***************************************************************************)
OnlyDayOfYearKeys == DOMAIN header_obj = DayOfYearKeys

C23_DayOfYearResolvesInUtc ==
    (FirstCallMade /\ OnlyDayOfYearKeys /\ input_timezone # <<>>) =>
        /\ date_time.exc = "none"
        /\ date_time.aware
        /\ date_time.hours = 24 * header_obj["utcyear"].day
                                + 24 * (header_obj["utcdoy"].day - 1)
                                + header_obj["utctod"].hour

\* What the code does on that path: the timestamp it computes is already
\* in UTC, and localizing it to the input timezone is a TypeError.
DayOfYearAlwaysFails ==
    (date_time_calls > 0 /\ OnlyDayOfYearKeys /\ input_timezone # <<>>) =>
        date_time.exc = "TypeError"

(***************************************************************************)
(* C25: parse_date_time is repeatable on one parser: when a first call     *)
(* succeeds, a second call on the same object succeeds too and returns the *)
(* same timestamp.                                                         *)
(***************************************************************************)
FirstCall == parse_date_time(header_obj, input_timezone)

SecondCallMade == date_time_calls = 2

C25_SecondCallReturnsTheSame ==
    (SecondCallMade /\ FirstCall.exc = "none") =>
        /\ date_time.exc = "none"
        /\ date_time.hours = FirstCall.hours
        /\ date_time.aware = FirstCall.aware

\* The part of C25 the code does satisfy: the records with a combined
\* date-and-time key, which the first call does not overwrite.
SecondCallReturnsTheSameForCombinedKey ==
    (SecondCallMade /\ FirstCall.exc = "none"
        /\ DT_KEY \in DOMAIN header_obj) =>
        /\ date_time.exc = "none"
        /\ date_time.hours = FirstCall.hours
        /\ date_time.aware = FirstCall.aware

\* Without a combined key the second call finds the date object the first
\* call stored and fails on len() of it.
SecondCallFailsWithoutCombinedKey ==
    (SecondCallMade /\ FirstCall.exc = "none"
        /\ DT_KEY \notin DOMAIN header_obj) =>
        date_time.exc = "TypeError"

(***************************************************************************)
(* Header reader (io/readers.py, CSVMetaDataParser.find_header_info).      *)
(*                                                                         *)
(* The lines above the column line are stripped, joined with one space and *)
(* split on the marker; the pieces are stripped and the empty ones         *)
(* dropped.                                                                *)
(***************************************************************************)
NoHeaderInfo == [exc |-> "not_called", header |-> <<>>, columns |-> <<>>]

RECURSIVE SplitOnWhitespace(_)
\* str.split(None): the runs of characters between runs of spaces
SplitOnWhitespace(s) ==
    LET t == StripLeft(s, " ")
    IN  IF t = <<>> THEN <<>>
        ELSE IF \A i \in 1..Len(t) : t[i] # " " THEN <<t>>
        ELSE LET first == CHOOSE i \in 1..Len(t) :
                            t[i] = " " /\ \A j \in 1..(i - 1) : t[j] # " "
             IN  <<SubSeq(t, 1, first - 1)>>
                    \o SplitOnWhitespace(SubSeq(t, first + 1, Len(t)))

\* The last statements of find_header_info, from the header lines on.
join_and_split(header_lines, header_indicator) ==
    LET stripped == [i \in 1..Len(header_lines) |->
                        Strip(header_lines[i], " ")]
        joined == JoinWith(stripped, <<" ">>)
        pieces == IF header_indicator = <<>>
                  THEN SplitOnWhitespace(joined)
                  ELSE SplitOn(joined, header_indicator[1])
        clean == [i \in 1..Len(pieces) |-> Strip(pieces[i], " ")]
    IN  SelectSeq(clean, LAMBDA ln : ln # <<>>)

\* CSVMetaDataParser.find_header_info
find_header_info(lines_, site, allow_split) ==
    IF site
    THEN [exc |-> "none", header |-> join_and_split(lines_, <<"#">>),
          columns |-> <<>>]
    ELSE LET found == find_header_position(lines_, allow_split)
         IN  IF found.exc # "none"
             THEN [exc |-> found.exc, header |-> <<>>, columns |-> <<>>]
             ELSE [exc |-> "none",
                   header |-> join_and_split(
                                SubSeq(lines_, 1, found.header_pos),
                                found.header_indicator),
                   columns |-> parse_columns(lines_[found.header_pos + 1])]

\* The lines files are made of: header entries, one of them with the marker
\* inside its value, continuation lines, column lines and data lines.
HeaderFileLines ==
    { <<"#", "a", ",", "1">>,
      <<"#", " ", "b", ",", "x">>,
      <<"#", "c", ",", "x", "#", "1">>,
      <<"d", " ", "x">>,
      <<"#", "a", ",", "b">>,
      <<"1", ",", "2">> }

InfoInit ==
    /\ \E n \in 1..MaxLines : file_lines \in [1..n -> HeaderFileLines]
    /\ site_details \in BOOLEAN
    /\ split_header \in BOOLEAN
    /\ header_info = NoHeaderInfo

InfoIdle ==
    /\ file_lines = <<>>
    /\ site_details = FALSE
    /\ split_header = FALSE
    /\ header_info = NoHeaderInfo

\* parser.find_header_info()
FindHeaderInfo ==
    /\ header_info.exc = "not_called"
    /\ header_info' = find_header_info(file_lines, site_details, split_header)
    /\ UNCHANGED <<file_lines, site_details, split_header>>
    /\ UNCHANGED infoOthers

InfoNext == FindHeaderInfo

(***************************************************************************)
(* Claims about the header reader.                                         *)
(***************************************************************************)
\* How many lines lie above the boundary (all of them in a site file).
LinesAboveBoundary ==
    IF site_details THEN Len(file_lines)
    ELSE find_header_position(file_lines, split_header).header_pos

\* The marker-prefixed lines above the boundary, in file order.
MarkedAbove ==
    SelectSeq([i \in 1..LinesAboveBoundary |-> i],
              LAMBDA i : file_lines[i][1] = "#")

\* The unmarked lines that follow line i up to the next marked line.
ContinuationsOf(i) ==
    LET stop == CHOOSE j \in (i + 1)..(LinesAboveBoundary + 1) :
                    /\ j = LinesAboveBoundary + 1 \/ file_lines[j][1] = "#"
                    /\ \A k \in (i + 1)..(j - 1) : file_lines[k][1] # "#"
    IN  SubSeq(file_lines, i + 1, stop - 1)

\* The entry of marked line i: the line without its marker, each
\* continuation line appended with a single space.
EntryOf(i) ==
    LET parts == <<Tail(file_lines[i])>> \o ContinuationsOf(i)
    IN  JoinWith([k \in 1..Len(parts) |-> Strip(parts[k], " ")], <<" ">>)

\* A line above the boundary holds the marker inside its value.
MarkerInsideSomeValue ==
    \E i \in 1..LinesAboveBoundary :
        \E k \in 2..Len(file_lines[i]) : file_lines[i][k] = "#"

(***************************************************************************)
(* C24: find_header_info yields exactly one header entry per               *)
(* marker-prefixed line above the boundary, in the order of those lines;   *)
(* each unmarked continuation line is appended to the preceding marked     *)
(* line with a single space, and an entry is never split in two, also when *)
(* its value holds the marker character.                                   *)
(***************************************************************************)
C24_OneEntryPerMarkedLine ==
    header_info.exc = "none" =>
        /\ Len(header_info.header) = Len(MarkedAbove)
        /\ \A k \in 1..Len(MarkedAbove) :
            header_info.header[k] = EntryOf(MarkedAbove[k])

\* The part of C24 the code does satisfy: the files whose first line is
\* marked and whose header values do not hold the marker.
OneEntryPerMarkedLineWithoutInnerMarker ==
    (header_info.exc = "none" /\ file_lines[1][1] = "#"
        /\ ~MarkerInsideSomeValue) =>
        /\ Len(header_info.header) = Len(MarkedAbove)
        /\ \A k \in 1..Len(MarkedAbove) :
            header_info.header[k] = EntryOf(MarkedAbove[k])

\* A continuation line was appended to the entry before it.
ContinuationWasAppended ==
    /\ header_info.exc = "none"
    /\ ~site_details
    /\ Len(file_lines) = 3
    /\ file_lines[1][1] = "#"
    /\ file_lines[2][1] # "#"
    /\ LinesAboveBoundary = 2
    /\ header_info.header = <<EntryOf(1)>>

(***************************************************************************)
(* C28: for a table with a 'force' column _clean_df completes without      *)
(* error and returns the table with depth divided by 10 and negated, plus  *)
(* a 'comments' column; an empty table is returned unchanged.              *)
(***************************************************************************)
C28_PenetrometerTableIsCleaned ==
    cleaned.exc # "not_called" =>
        /\ raw_df.force =>
            /\ cleaned.exc = "none"
            /\ cleaned.comments
            /\ Len(cleaned.depth) = Len(raw_df.depth)
            /\ \A i \in 1..Len(raw_df.depth) :
                10 * cleaned.depth[i] = -raw_df.depth[i]
        /\ raw_df.depth = <<>> =>
            /\ cleaned.exc = "none"
            /\ cleaned.depth = <<>>

\* What the code does with a 'force' column: it fails on the undefined
\* names Path and profile_filename, whatever the rows.
PenetrometerTableAlwaysFails ==
    (cleaned.exc # "not_called" /\ raw_df.force) =>
        cleaned.exc = "NameError"

\* The part of C28 the code does satisfy: an empty table without a 'force'
\* column comes back unchanged.
EmptyTableWithoutForceIsUnchanged ==
    (cleaned.exc # "not_called" /\ raw_df.depth = <<>> /\ ~raw_df.force) =>
        /\ cleaned.exc = "none"
        /\ cleaned.depth = <<>>
        /\ cleaned.bottom_depth = raw_df.bottom_depth

(***************************************************************************)
(* Snow accessor (core/profiles.py, class SnowProfile).                    *)
(*                                                                         *)
(* A dataset is [vars, samples]: vars is the sequence of its data          *)
(* variables in insertion order, each [name, values] with one value per z  *)
(* level (NaN or a fraction); samples tells whether the variables carry    *)
(* the 'samples' attribute, which then gives every z level a sample of     *)
(* height 1.                                                               *)
(***************************************************************************)
water_density == 997

NamesOf(ds) == [i \in 1..Len(ds.vars) |-> ds.vars[i].name]

ValuesOf(ds, name) ==
    ds.vars[CHOOSE i \in 1..Len(ds.vars) : ds.vars[i].name = name].values

\* 'density' in v.lower()
IsDensityName(v) ==
    v \in {"density_a", "density_b", "density_avg", "new_mean_density"}

\* ('avg' in v) or ('ave' in v)
IsAverageName(v) == v \in {"density_avg"}

\* SnowProfile._get_var_names('density')
get_var_names(ds) == SelectSeq(NamesOf(ds), IsDensityName)

\* data_obj[v].count() == 0
AllNull(values) == \A z \in 1..Len(values) : values[z].kind = "nan"

\* list.remove of the element at place i
RemoveAt(list, i) == SubSeq(list, 1, i - 1) \o SubSeq(list, i + 1, Len(list))

RECURSIVE remove_all_null_from(_, _, _)
\* The loop 'for v in d_vars: if data_obj[v].count() == 0: d_vars.remove(v)'
\* from the i-th step on: the iterator moves on to place i + 1 of the list
\* as it is after the removal.
remove_all_null_from(ds, d_vars, i) ==
    IF i > Len(d_vars) THEN d_vars
    ELSE IF AllNull(ValuesOf(ds, d_vars[i]))
    THEN remove_all_null_from(ds, RemoveAt(d_vars, i), i + 1)
    ELSE remove_all_null_from(ds, d_vars, i + 1)

\* data_obj[d_vars].to_array(dim='new').mean('new'): at each z level the
\* mean of the non-null values of the variables.
mean_of_variables(ds, d_vars) ==
    [z \in 1..Len(ValuesOf(ds, d_vars[1])) |->
        LET column == [k \in 1..Len(d_vars) |-> ValuesOf(ds, d_vars[k])[z]]
            total == SumSkipNa(column, Len(column))
        IN  IF CountNotNa(column) = 0 THEN NaN
            ELSE Frac(total.n, total.d * CountNotNa(column))]

NoSwe == [exc |-> "not_called", value |-> NaN, d_vars |-> <<>>,
          d_var |-> "", averaged |-> <<>>]

\* The end of _get_total_swe, from da = data_obj[d_var] on.
swe_of(ds, d_vars, d_var, averaged) ==
    LET values == ValuesOf(ds, d_var)
        da == SelectSeq(values, LAMBDA v : v.kind # "nan")
        sample_hs == IF ds.samples THEN [k \in 1..Len(da) |-> 1] ELSE <<>>
        total == SumSkipNa(da, Len(da))
    IN  IF Len(sample_hs) # Len(da)
           \/ da = <<>>
           \/ ~(total.n > Len(da) * total.d)
        THEN [exc |-> "AssertionError", value |-> NaN, d_vars |-> d_vars,
              d_var |-> d_var, averaged |-> averaged]
        ELSE [exc |-> "none",
              value |-> Frac(total.n, total.d * water_density),
              d_vars |-> d_vars, d_var |-> d_var, averaged |-> averaged]

\* SnowProfile._get_total_swe: the outcome, with the candidates left by the
\* filtering loop, the variable chosen and the variables averaged, and the
\* dataset as the call leaves it.
get_total_swe(ds) ==
    LET d_vars == remove_all_null_from(ds, get_var_names(ds), 1)
        averages == SelectSeq(d_vars, IsAverageName)
    IN  IF Len(d_vars) = 0
        THEN [out |-> [exc |-> "none", value |-> NaN, d_vars |-> d_vars,
                       d_var |-> "", averaged |-> <<>>],
              obj |-> ds]
        ELSE IF Len(d_vars) = 1
        THEN [out |-> swe_of(ds, d_vars, d_vars[1], <<>>), obj |-> ds]
        ELSE IF averages # <<>>
        THEN [out |-> swe_of(ds, d_vars, averages[1], <<>>), obj |-> ds]
        ELSE LET new == [name |-> "new_mean_density",
                         values |-> mean_of_variables(ds, d_vars)]
                 place == {i \in 1..Len(ds.vars) :
                            ds.vars[i].name = "new_mean_density"}
                 ds1 == [ds EXCEPT !.vars =
                            IF place = {} THEN Append(ds.vars, new)
                            ELSE [i \in 1..Len(ds.vars) |->
                                    IF i \in place THEN new
                                    ELSE ds.vars[i]]]
             IN  [out |-> swe_of(ds1, d_vars, "new_mean_density", d_vars),
                  obj |-> ds1]

\* sorted() of the variable names of the model.
AlphabeticalOrder ==
    <<"density_a", "density_avg", "density_b", "new_mean_density",
      "temperature">>

sorted_vars(ds) ==
    SelectSeq(AlphabeticalOrder, LAMBDA v : v \in Range(NamesOf(ds)))

\* (a.dropna('z') == b.dropna('z')).all(): the comparison is made on the z
\* levels both arrays still have, and is true when there is none.
all_equal_after_dropna(a, b) ==
    \A z \in 1..Len(a) :
        (a[z].kind # "nan" /\ b[z].kind # "nan") => StatEq(a[z], b[z])

RECURSIVE drop_identical_from(_, _, _, _)
\* The loop of drop_identical_vars from the k-th sorted variable on; kept
\* holds the names put into cleaned_dataset so far.
drop_identical_from(ds, names, k, kept) ==
    IF k > Len(names) THEN kept
    ELSE LET var == names[k]
             drop == \E j \in 1..Len(kept) :
                        all_equal_after_dropna(ValuesOf(ds, var),
                                               ValuesOf(ds, kept[j]))
         IN  drop_identical_from(ds, names, k + 1,
                                 IF drop THEN kept ELSE Append(kept, var))

\* SnowProfile.drop_identical_vars: the dataset returned.
drop_identical_vars(ds) ==
    LET kept == drop_identical_from(ds, sorted_vars(ds), 1, <<>>)
    IN  [vars |-> [i \in 1..Len(kept) |->
                    [name |-> kept[i], values |-> ValuesOf(ds, kept[i])]],
         samples |-> ds.samples]

\* The variables datasets are made of, in the order they were added.
VariablePool == <<"density_b", "density_a", "temperature", "density_avg">>

SnowValues == {NaN, Frac(1, 1), Frac(2, 1)}

NoDataset == [vars |-> <<>>, samples |-> FALSE]

NotDeduped == [called |-> FALSE, ds |-> NoDataset]

SnowInit ==
    /\ \E present \in SUBSET (1..Len(VariablePool)), n \in 1..MaxZ :
        \E values \in [1..Len(VariablePool) -> [1..n -> SnowValues]],
           samples \in BOOLEAN :
            /\ present # {}
            /\ Cardinality(present) <= MaxVars
            /\ \A i \in 1..Len(VariablePool) :
                i \notin present => \A z \in 1..n : values[i][z] = NaN
            /\ snow_input =
                [vars |-> [i \in 1..Cardinality(present) |->
                            LET p == CHOOSE q \in present :
                                        Cardinality({r \in present : r < q})
                                            = i - 1
                            IN  [name |-> VariablePool[p],
                                 values |-> values[p]]],
                 samples |-> samples]
    /\ snow_obj = snow_input
    /\ swe = NoSwe
    /\ deduped = NotDeduped

SnowIdle ==
    /\ snow_input = NoDataset
    /\ snow_obj = NoDataset
    /\ swe = NoSwe
    /\ deduped = NotDeduped

\* ds.snow._get_total_swe()
GetTotalSwe ==
    /\ swe.exc = "not_called"
    /\ LET got == get_total_swe(snow_obj)
       IN  /\ swe' = got.out
           /\ snow_obj' = got.obj
    /\ UNCHANGED <<snow_input, deduped>>
    /\ UNCHANGED snowOthers

\* ds.snow.drop_identical_vars()
DropIdenticalVars ==
    /\ ~deduped.called
    /\ deduped' = [called |-> TRUE, ds |-> drop_identical_vars(snow_obj)]
    /\ UNCHANGED <<snow_input, snow_obj, swe>>
    /\ UNCHANGED snowOthers

SnowNext == GetTotalSwe \/ DropIdenticalVars

(***************************************************************************)
(* Claims about the snow accessor.                                         *)
(***************************************************************************)
\* The density variables of the dataset that have a non-null value.
NonNullDensityVars ==
    SelectSeq(get_var_names(snow_input),
              LAMBDA v : ~AllNull(ValuesOf(snow_input, v)))

\* Two all-null density variables follow each other in the candidates.
AdjacentAllNull ==
    \E i \in 1..(Len(get_var_names(snow_input)) - 1) :
        /\ AllNull(ValuesOf(snow_input, get_var_names(snow_input)[i]))
        /\ AllNull(ValuesOf(snow_input, get_var_names(snow_input)[i + 1]))

\* total_swe was computed on the dataset as it was created.
SweComputed ==
    /\ swe.exc # "not_called"
    /\ "new_mean_density" \notin Range(NamesOf(snow_input))

(***************************************************************************)
(* C29: when total_swe is computed, the filtering loop removes every       *)
(* density variable without a non-null value: no all-null variable is left *)
(* among the candidates, also when two all-null variables are adjacent, so *)
(* neither the variable chosen nor the mean density computed includes one. *)
(***************************************************************************)
C29_NoAllNullCandidateRemains ==
    SweComputed =>
        /\ swe.d_vars = NonNullDensityVars
        /\ swe.d_var \in Range(NonNullDensityVars) \cup {"", "new_mean_density"}
        /\ Range(swe.averaged) \subseteq Range(NonNullDensityVars)

\* The part of C29 the code does satisfy: the datasets in which no two
\* all-null density variables are adjacent.
NoAllNullCandidateRemainsUnlessAdjacent ==
    (SweComputed /\ ~AdjacentAllNull) =>
        /\ swe.d_vars = NonNullDensityVars
        /\ swe.d_var \in Range(NonNullDensityVars) \cup {"", "new_mean_density"}
        /\ Range(swe.averaged) \subseteq Range(NonNullDensityVars)

\* An all-null variable between two others was removed.
SeparatedAllNullWereRemoved ==
    /\ swe.exc = "none"
    /\ Len(get_var_names(snow_input)) = 3
    /\ Len(swe.d_vars) = 1
    /\ AllNull(ValuesOf(snow_input, get_var_names(snow_input)[1]))
    /\ AllNull(ValuesOf(snow_input, get_var_names(snow_input)[3]))

\* The two arrays hold the same non-null values at the same z levels.
SameNonNullValues(a, b) ==
    \A z \in 1..Len(a) :
        /\ a[z].kind = b[z].kind
        /\ StatEq(a[z], b[z])

\* v comes before w in sorted order.
SortsBefore(v, w) ==
    \E i, j \in 1..Len(AlphabeticalOrder) :
        i < j /\ AlphabeticalOrder[i] = v /\ AlphabeticalOrder[j] = w

KeptNames == Range(NamesOf(deduped.ds))

DroppedNames == Range(NamesOf(snow_obj)) \ KeptNames

\* drop_identical_vars ran on the dataset as it still is.
Deduplicated == deduped.called /\ swe.exc = "not_called"

(***************************************************************************)
(* C30: drop_identical_vars returns a new dataset and leaves the original  *)
(* unchanged; each dropped variable has the non-null values of an          *)
(* alphabetically earlier kept one, no two kept variables are identical,   *)
(* and applying drop_identical_vars to its result drops nothing.           *)
(***************************************************************************)
C30_DropsExactlyTheIdentical ==
    Deduplicated =>
        /\ snow_obj = snow_input
        /\ KeptNames \subseteq Range(NamesOf(snow_obj))
        /\ \A v \in KeptNames :
            ValuesOf(deduped.ds, v) = ValuesOf(snow_obj, v)
        /\ \A v \in DroppedNames :
            \E w \in KeptNames :
                /\ SortsBefore(w, v)
                /\ SameNonNullValues(ValuesOf(snow_obj, v),
                                     ValuesOf(snow_obj, w))
        /\ \A v, w \in KeptNames :
            v # w => ~SameNonNullValues(ValuesOf(snow_obj, v),
                                        ValuesOf(snow_obj, w))
        /\ drop_identical_vars(deduped.ds) = deduped.ds

\* The part of C30 the code does satisfy: a dropped variable agrees with an
\* earlier kept one wherever both have a value, which they need not have
\* anywhere.
DropsTheVariablesAgreeingWhereBothHaveValues ==
    Deduplicated =>
        /\ snow_obj = snow_input
        /\ KeptNames \subseteq Range(NamesOf(snow_obj))
        /\ \A v \in KeptNames :
            ValuesOf(deduped.ds, v) = ValuesOf(snow_obj, v)
        /\ \A v \in DroppedNames :
            \E w \in KeptNames :
                /\ SortsBefore(w, v)
                /\ all_equal_after_dropna(ValuesOf(snow_obj, v),
                                          ValuesOf(snow_obj, w))
        /\ \A v, w \in KeptNames :
            v # w => ~SameNonNullValues(ValuesOf(snow_obj, v),
                                        ValuesOf(snow_obj, w))
        /\ drop_identical_vars(deduped.ds) = deduped.ds

\* A variable identical to an earlier one was dropped, a different one
\* kept.
IdenticalVariableWasDropped ==
    /\ Deduplicated
    /\ KeptNames = {"density_a", "temperature"}
    /\ DroppedNames = {"density_b"}
    /\ \A z \in 1..Len(ValuesOf(snow_obj, "density_a")) :
        ValuesOf(snow_obj, "density_a")[z].kind # "nan"

(***************************************************************************)
(* The specifications: one component runs, the others stay idle.           *)
(***************************************************************************)
DepthSpecInit ==
    DepthInit /\ ProfileIdle /\ ParserIdle /\ HeaderIdle /\ MetaIdle /\ UnitIdle
        /\ CleanIdle
        /\ InfoIdle
        /\ SnowIdle

SpecDepth == DepthSpecInit /\ [][DepthNext]_vars

ProfileSpecInit ==
    ProfileInit /\ DepthIdle /\ ParserIdle /\ HeaderIdle /\ MetaIdle /\ UnitIdle
        /\ CleanIdle
        /\ InfoIdle
        /\ SnowIdle

SpecProfile == ProfileSpecInit /\ [][ProfileNext]_vars

LocationSpecInit ==
    LocationInit /\ DepthIdle /\ ProfileIdle /\ HeaderIdle /\ MetaIdle /\ UnitIdle
        /\ CleanIdle
        /\ InfoIdle
        /\ SnowIdle

SpecLocation == LocationSpecInit /\ [][LocationNext]_vars

TimeSpecInit ==
    TimeInit /\ DepthIdle /\ ProfileIdle /\ HeaderIdle /\ MetaIdle /\ UnitIdle
        /\ CleanIdle
        /\ InfoIdle
        /\ SnowIdle

SpecTime == TimeSpecInit /\ [][TimeNext]_vars

HeaderSpecInit ==
    HeaderInit /\ DepthIdle /\ ProfileIdle /\ ParserIdle /\ MetaIdle /\ UnitIdle
        /\ CleanIdle
        /\ InfoIdle
        /\ SnowIdle

SpecHeader == HeaderSpecInit /\ [][HeaderNext]_vars

MetaSpecInit ==
    MetaInit /\ DepthIdle /\ ProfileIdle /\ ParserIdle /\ HeaderIdle
        /\ UnitIdle
        /\ CleanIdle
        /\ InfoIdle
        /\ SnowIdle

SpecMeta == MetaSpecInit /\ [][MetaNext]_vars

RecordSpecInit ==
    RecordInit /\ DepthIdle /\ ProfileIdle /\ HeaderIdle /\ MetaIdle
        /\ UnitIdle
        /\ CleanIdle
        /\ InfoIdle
        /\ SnowIdle

SpecRecord == RecordSpecInit /\ [][RecordNext]_vars

UnitSpecInit ==
    UnitInit /\ DepthIdle /\ ProfileIdle /\ ParserIdle /\ HeaderIdle
        /\ MetaIdle
        /\ CleanIdle
        /\ InfoIdle
        /\ SnowIdle

SpecUnit == UnitSpecInit /\ [][UnitNext]_vars

CleanSpecInit ==
    CleanInit /\ DepthIdle /\ ProfileIdle /\ ParserIdle /\ HeaderIdle
        /\ MetaIdle /\ UnitIdle
        /\ InfoIdle
        /\ SnowIdle

SpecClean == CleanSpecInit /\ [][CleanNext]_vars

InfoSpecInit ==
    InfoInit
        /\ CleanIdle
        /\ DepthIdle
        /\ HeaderIdle
        /\ MetaIdle
        /\ ParserIdle
        /\ ProfileIdle
        /\ UnitIdle
        /\ SnowIdle

SpecInfo == InfoSpecInit /\ [][InfoNext]_vars

SnowSpecInit ==
    SnowInit
        /\ CleanIdle
        /\ DepthIdle
        /\ HeaderIdle
        /\ InfoIdle
        /\ MetaIdle
        /\ ParserIdle
        /\ ProfileIdle
        /\ UnitIdle

SpecSnow == SnowSpecInit /\ [][SnowNext]_vars

====
